---- MODULE Spec2Model ----
(***************************************************************************)
(* ideabase: the concurrent ingestion-and-enrichment pipeline.             *)
(*                                                                         *)
(* Storage is the PostgreSQL database of alembic/versions/init_schema.py:  *)
(* table projects (unique full_name) and table project_insights (unique    *)
(* index on (project_id, language)).  Callers are independent execution    *)
(* contexts (Celery workers, request handlers), each with its own          *)
(* SQLAlchemy sessions.  One step of the model is one database round trip  *)
(* (or the awaited generator call) of one caller; the purely local code    *)
(* between two round trips belongs to the step that precedes it.           *)
(***************************************************************************)
EXTENDS Integers, FiniteSets, Sequences, TLC

\* ------------------------------------------------------------------ bounds
\* Operations (calls of process_project, get_project_insights_by_name and
\* analyze_single_project) the model runs, each in an execution context of its
\* own and all of them possibly at once.
MaxOps == 2

Callers == 1..MaxOps

\* ---------------------------------------------------------- program values
NoRow == 0
NoResult == [analysis_status |-> "none"]
OPENAI_MODEL == "gpt-4"
Languages == {"en", "zh"}

\* The language query parameter of the read endpoint is any string: the two
\* languages of the pipeline, and one that is neither.
RequestLanguages == Languages \cup {"fr"}
FullNames == {"acme/widget"}

\* The candidate records the scraper hands to process_project.  A candidate is
\* one sighting of a repository; the sightings differ in description and counts.
\* description stands for all the columns that process_project sets from the
\* candidate at the insert only (description, repository_url, homepage_url,
\* language).
Sighting(fn, v) ==
    [name |-> "widget", owner |-> "acme", full_name |-> fn,
     description |-> v, stars_count |-> 10 * v, forks_count |-> v,
     trending_date |-> v]

Candidates == {Sighting(fn, v) : fn \in FullNames, v \in {1, 2}}

\* process_project takes any dictionary: a candidate that carries no counts.
SparseSighting(fn, v) ==
    [name |-> "widget", owner |-> "acme", full_name |-> fn,
     description |-> v, trending_date |-> v]

SparseCandidates == {SparseSighting(fn, v) : fn \in FullNames, v \in {1, 2}}

\* project_data.get(key, default).
GetOrZero(d, key, default) == IF key \in DOMAIN d THEN d[key] ELSE 0

Get(d, key, default) == IF key \in DOMAIN d THEN d[key] ELSE default

VARIABLES
    projects,           \* committed rows of table projects
    project_insights,   \* committed rows of table project_insights
    lock,               \* lock[c]: the row caller c's open transaction holds FOR UPDATE
    pc,                 \* pc[c]: where caller c stands
    loc,                \* loc[c]: the local variables of caller c's running operation
    inserted,           \* inserted[fn]: Project INSERTs committed for full_name fn
    last_commit,        \* last_commit[pid, l]: the generator result held by the
                        \* call whose write of the pair committed last
    llm,                \* one analyze_project call looked at from the inside:
                        \* its stage, its inputs and what it returns
    run                 \* one run of _scrape_github_trending_async: where it
                        \* stands, its result_stats and what it returns

vars ==
    <<projects, project_insights, lock, pc, loc, inserted, last_commit, llm,
      run>>

\* No run of the pipeline driver has begun.
NoRun == [stage |-> "idle"]

\* No analyze_project call is under the lens.
NoCall == [stage |-> "idle"]

NoLock == <<"none", NoRow>>
NoCommit == NoResult

\* d[key] = value of a dictionary.
SetKey(d, key, value) ==
    IF key \in DOMAIN d
    THEN [d EXCEPT ![key] = value]
    ELSE [x \in DOMAIN d \cup {key} |-> IF x = key THEN value ELSE d[x]]

\* ------------------------------------------------------------------ storage
ProjectByFullName(fn) == {p \in projects : p.full_name = fn}

InsightsOf(pid, language) ==
    {i \in project_insights : i.project_id = pid /\ i.language = language}

InsightById(id) == CHOOSE i \in project_insights : i.id = id

ProjectById(id) == CHOOSE p \in projects : p.id = id

\* SELECT ... FOR UPDATE waits while another transaction holds the row.
LockedByOtherNever(c, table, id) == FALSE

LockedByOther(c, table, id) == \E d \in Callers \ {c} : lock[d] = <<table, id>>

\* UNIQUE (full_name) on projects.
ProjectFullNameConflictNoConstraint(fn) == FALSE

ProjectFullNameConflict(fn) == ProjectByFullName(fn) # {}

\* UNIQUE INDEX ix_project_insights_project_id_language.
InsightKeyConflictNoIndex(pid, language) == FALSE

InsightKeyConflict(pid, language) == InsightsOf(pid, language) # {}

\* ---------------------------------------------------------------- generator
\* What ProjectAnalyzer.analyze_project hands back when the model call and the
\* parse succeed, for the invocation made by caller c.
LlmPayload(c, language) ==
    [business_value |-> <<"llm business_value", c>>,
     market_opportunity |-> <<"llm market_opportunity", c>>,
     startup_ideas |-> <<"llm startup_ideas", c>>,
     target_audience |-> <<"llm target_audience", c>>,
     competition_analysis |-> <<"llm competition_analysis", c>>,
     analysis_status |-> "success",
     language |-> language]

\* _get_default_analysis: the failure fallback, its language "zh" or else "en".
get_default_analysisPartial(language) ==
    [business_value |-> <<"Unable to analyze the business value of this project.", 0>>,
     market_opportunity |-> <<"Unable to evaluate market opportunities.", 0>>,
     startup_ideas |-> <<>>,
     target_audience |-> <<"Unable to identify target users.", 0>>,
     competition_analysis |-> <<"Unable to analyze competitive situation.", 0>>,
     analysis_status |-> "failed",
     language |-> language]

get_default_analysis(language) ==
    IF language = "zh"
    THEN [business_value |-> <<"zh default business_value", 0>>,
          market_opportunity |-> <<"zh default market_opportunity", 0>>,
          startup_ideas |-> <<"zh default startup_ideas", 0>>,
          target_audience |-> <<"zh default target_audience", 0>>,
          competition_analysis |-> <<"zh default competition_analysis", 0>>,
          analysis_status |-> "failed",
          language |-> "zh"]
    ELSE [business_value |-> <<"Unable to analyze the business value of this project.", 0>>,
          market_opportunity |-> <<"Unable to evaluate market opportunities.", 0>>,
          startup_ideas |-> <<"Unable to generate startup ideas.", 0>>,
          target_audience |-> <<"Unable to identify target users.", 0>>,
          competition_analysis |-> <<"Unable to analyze competitive situation.", 0>>,
          analysis_status |-> "failed",
          language |-> "en"]

\* The outcomes of one analyze_project call: the parsed model answer, or the
\* failure fallback of its except branch.
AnalyzeOutcomes(c, language) == {LlmPayload(c, language), get_default_analysis(language)}

\* ------------------------------------------------------------------- locals
\* coi_ret[l]: what create_or_update_insight returned for language l in the
\* running operation: (ok, insight), with whether the call met a uniqueness
\* conflict or a storage failure; NoRet while it has not returned.
NoRet ==
    [returned |-> FALSE, ok |-> FALSE, insight |-> NoRow, conflict |-> FALSE,
     db_error |-> FALSE]

IdleLoc ==
    [op |-> "none", cand |-> Sighting("acme/widget", 1), full_name |-> "",
     project |-> NoRow, is_new |-> FALSE, queried |-> FALSE, need |-> {},
     language |-> "", existing |-> NoRow,
     analysis_result |-> NoResult, gen_calls |-> 0, commits |-> 0,
     conflict |-> FALSE, db_error |-> FALSE,
     coi_ret |-> [l \in Languages |-> NoRet],
     ret |-> "none", ret_insight |-> NoRow]

Init ==
    /\ projects = {}
    /\ project_insights = {}
    /\ lock = [c \in Callers |-> NoLock]
    /\ pc = [c \in Callers |-> "idle"]
    /\ loc = [c \in Callers |-> IdleLoc]
    /\ inserted = [fn \in FullNames |-> 0]
    /\ last_commit = [k \in (1..MaxOps) \X Languages |-> NoCommit]
    /\ llm = NoCall
    /\ run = NoRun

\* ------------------------------------------------- create_or_update_insight
\* The caller's locals on entry to create_or_update_insight(project, data, language).
EnterCoi(L, language) ==
    [L EXCEPT !.language = language, !.existing = NoRow,
              !.analysis_result = NoResult, !.gen_calls = 0, !.commits = 0,
              !.conflict = FALSE, !.db_error = FALSE]

\* Caller c is inside create_or_update_insight.
InCoi(c) ==
    pc[c] \in {"coi_select", "coi_await", "coi_retry_select", "coi_retry_commit"}

\* The operation of caller c has returned ret: its frame is gone, and what the
\* model keeps of it is what it was called with and what it returned.
Returned(L, ret, insight) ==
    [IdleLoc EXCEPT !.op = L.op, !.full_name = L.full_name,
                    !.project = L.project, !.is_new = L.is_new,
                    !.queried = L.queried, !.language = L.language,
                    !.coi_ret = L.coi_ret, !.ret = ret, !.ret_insight = insight]

\* What process_project does from the English block on (from = 1) or from the
\* Chinese block on (from = 2): the next needed language enters
\* create_or_update_insight; with none left it returns True.
PipelineNextStopOnFailure(L, from) ==
    IF from <= 1 /\ "en" \in L.need
    THEN [pc |-> "coi_select", loc |-> EnterCoi(L, "en")]
    ELSE IF from <= 2 /\ "zh" \in L.need
                      /\ (L.coi_ret["en"].returned => L.coi_ret["en"].ok)
    THEN [pc |-> "coi_select", loc |-> EnterCoi(L, "zh")]
    ELSE [pc |-> "done", loc |-> Returned(L, "True", NoRow)]

PipelineNext(L, from) ==
    IF from <= 1 /\ "en" \in L.need
    THEN [pc |-> "coi_select", loc |-> EnterCoi(L, "en")]
    ELSE IF from <= 2 /\ "zh" \in L.need
    THEN [pc |-> "coi_select", loc |-> EnterCoi(L, "zh")]
    ELSE [pc |-> "done", loc |-> Returned(L, "True", NoRow)]

\* The code that follows the return of create_or_update_insight in its caller.
AfterCoi(L0, ok, insight) ==
    LET L == [L0 EXCEPT !.coi_ret = SetKey(@, L0.language,
                  [returned |-> TRUE, ok |-> ok, insight |-> insight,
                   conflict |-> L0.conflict, db_error |-> L0.db_error])]
    IN  CASE L.op = "pipeline" ->
                PipelineNext(L, IF L.language = "en" THEN 2 ELSE 3)
          [] L.op = "batch" ->
                [pc |-> "done",
                 loc |-> Returned(L, IF ok THEN "True" ELSE "False", NoRow)]
          [] L.op = "read" ->
                IF ok /\ insight # NoRow
                THEN [pc |-> "done", loc |-> Returned(L, "insight", insight)]
                ELSE [pc |-> "rd_requery", loc |-> L]

\* The assignments of the update branch (a row was found).
UpdatedInsightStale(row, result) == row

UpdatedInsight(row, result) ==
    [row EXCEPT !.business_value = result.business_value,
                !.market_opportunity = result.market_opportunity,
                !.startup_ideas = result.startup_ideas,
                !.target_audience = result.target_audience,
                !.competition_analysis = result.competition_analysis,
                !.analysis_version = OPENAI_MODEL,
                !.analysis_status = result.analysis_status]

\* The ProjectInsight(...) of the create branch.
NewInsightMixed(id, pid, language, result) ==
    [id |-> id, project_id |-> pid, language |-> language,
     business_value |-> result.business_value,
     market_opportunity |-> get_default_analysis(language).market_opportunity,
     startup_ideas |-> get_default_analysis(language).startup_ideas,
     target_audience |-> get_default_analysis(language).target_audience,
     competition_analysis |-> get_default_analysis(language).competition_analysis,
     analysis_version |-> OPENAI_MODEL,
     analysis_status |-> result.analysis_status]

NewInsight(id, pid, language, result) ==
    [id |-> id, project_id |-> pid, language |-> language,
     business_value |-> result.business_value,
     market_opportunity |-> result.market_opportunity,
     startup_ideas |-> result.startup_ideas,
     target_audience |-> result.target_audience,
     competition_analysis |-> result.competition_analysis,
     analysis_version |-> OPENAI_MODEL,
     analysis_status |-> result.analysis_status]

NextInsightId == Cardinality(project_insights) + 1

\* db.begin(), the SELECT ... FOR UPDATE ... first() for (project.id, language)
\* and the call of analyzer.analyze_project, on which the coroutine waits.  A
\* found row is locked until this session commits or rolls back; an absent row
\* locks nothing.
coi_select(c) ==
    /\ pc[c] = "coi_select"
    /\ LET rows == InsightsOf(loc[c].project, loc[c].language)
       IN  IF rows = {}
           THEN /\ loc' = [loc EXCEPT ![c].existing = NoRow,
                                      ![c].gen_calls = @ + 1]
                /\ lock' = lock
           ELSE \E r \in rows :
                    /\ ~LockedByOther(c, "project_insights", r.id)
                    /\ loc' = [loc EXCEPT ![c].existing = r.id,
                                          ![c].gen_calls = @ + 1]
                    /\ lock' = [lock EXCEPT ![c] = <<"project_insights", r.id>>]
    /\ pc' = [pc EXCEPT ![c] = "coi_await"]
    /\ UNCHANGED <<llm, run, projects, project_insights, inserted, last_commit>>

\* The committed write of caller c for its pair, as the history records it.
Committed(c, L) ==
    SetKey(last_commit, <<L.project, L.language>>, L.analysis_result)

\* except IntegrityError: db.rollback(), the error is logged, and the call
\* goes on to its retry block.
OnIntegrityErrorPropagate(L) == AfterCoi([L EXCEPT !.conflict = TRUE], FALSE, NoRow)

OnIntegrityError(L) ==
    [pc |-> "coi_retry_select", loc |-> [L EXCEPT !.conflict = TRUE]]

\* analyze_project returns analysis_result, and the inner try block runs:
\* update the row found or add a new one, db.commit(), db.refresh(), return
\* True.  The INSERT of a second row for the pair hits the unique index:
\* IntegrityError.
coi_commit(c, result) ==
    /\ pc[c] = "coi_await"
    /\ LET L == [loc[c] EXCEPT !.commits = @ + 1, !.analysis_result = result]
       IN  IF L.existing # NoRow
           THEN LET row == InsightById(L.existing)
                    nxt == AfterCoi(L, TRUE, L.existing)
                IN  /\ project_insights' = (project_insights \ {row})
                            \cup {UpdatedInsight(row, L.analysis_result)}
                    /\ last_commit' = Committed(c, L)
                    /\ pc' = [pc EXCEPT ![c] = nxt.pc]
                    /\ loc' = [loc EXCEPT ![c] = nxt.loc]
           ELSE IF InsightKeyConflict(L.project, L.language)
           THEN LET nxt == OnIntegrityError(L)
                IN  /\ project_insights' = project_insights
                    /\ last_commit' = last_commit
                    /\ pc' = [pc EXCEPT ![c] = nxt.pc]
                    /\ loc' = [loc EXCEPT ![c] = nxt.loc]
           ELSE LET nxt == AfterCoi(L, TRUE, NextInsightId)
                IN  /\ project_insights' = project_insights \cup
                            {NewInsight(NextInsightId, L.project, L.language,
                                        L.analysis_result)}
                    /\ last_commit' = Committed(c, L)
                    /\ pc' = [pc EXCEPT ![c] = nxt.pc]
                    /\ loc' = [loc EXCEPT ![c] = nxt.loc]
    /\ lock' = [lock EXCEPT ![c] = NoLock]
    /\ UNCHANGED <<llm, run, projects, inserted>>

\* except IntegrityError: db.begin() and the second SELECT ... FOR UPDATE.
coi_retry_selectRegenerating(c) ==
    /\ pc[c] = "coi_retry_select"
    /\ LET rows == InsightsOf(loc[c].project, loc[c].language)
       IN  IF rows = {}
           THEN /\ loc' = [loc EXCEPT ![c].existing = NoRow,
                                      ![c].gen_calls = @ + 1]
                /\ lock' = lock
           ELSE \E r \in rows :
                    /\ ~LockedByOther(c, "project_insights", r.id)
                    /\ loc' = [loc EXCEPT ![c].existing = r.id,
                                          ![c].gen_calls = @ + 1]
                    /\ lock' = [lock EXCEPT ![c] = <<"project_insights", r.id>>]
    /\ pc' = [pc EXCEPT ![c] = "coi_retry_commit"]
    /\ UNCHANGED <<llm, run, projects, project_insights, inserted, last_commit>>

coi_retry_select(c) ==
    /\ pc[c] = "coi_retry_select"
    /\ LET rows == InsightsOf(loc[c].project, loc[c].language)
       IN  IF rows = {}
           THEN /\ loc' = [loc EXCEPT ![c].existing = NoRow]
                /\ lock' = lock
           ELSE \E r \in rows :
                    /\ ~LockedByOther(c, "project_insights", r.id)
                    /\ loc' = [loc EXCEPT ![c].existing = r.id]
                    /\ lock' = [lock EXCEPT ![c] = <<"project_insights", r.id>>]
    /\ pc' = [pc EXCEPT ![c] = "coi_retry_commit"]
    /\ UNCHANGED <<llm, run, projects, project_insights, inserted, last_commit>>

\* The last attempt after a failed retry: db.rollback() and a plain query of
\* the pair; (True, row) when it finds one, (False, None) when it finds none or
\* raises.
FinalQueryRetrying(L, query_ok) == [pc |-> "coi_retry_select", loc |-> L]

FinalQuery(L, query_ok) ==
    IF query_ok /\ InsightsOf(L.project, L.language) # {}
    THEN AfterCoi(L, TRUE, (CHOOSE i \in InsightsOf(L.project, L.language) : TRUE).id)
    ELSE AfterCoi(L, FALSE, NoRow)

\* The retry's write: the row is there and is overwritten with this call's
\* result, or it is absent and inserted once more.  A second conflict is a
\* SQLAlchemyError and goes to the final query.
coi_retry_commit(c) ==
    /\ pc[c] = "coi_retry_commit"
    /\ LET L == [loc[c] EXCEPT !.commits = @ + 1]
       IN  IF L.existing # NoRow
           THEN LET row == InsightById(L.existing)
                    nxt == AfterCoi(L, TRUE, L.existing)
                IN  /\ project_insights' = (project_insights \ {row})
                            \cup {UpdatedInsight(row, L.analysis_result)}
                    /\ last_commit' = Committed(c, L)
                    /\ pc' = [pc EXCEPT ![c] = nxt.pc]
                    /\ loc' = [loc EXCEPT ![c] = nxt.loc]
           ELSE IF InsightKeyConflict(L.project, L.language)
           THEN LET nxt == FinalQuery(L, TRUE)
                IN  /\ project_insights' = project_insights
                    /\ last_commit' = last_commit
                    /\ pc' = [pc EXCEPT ![c] = nxt.pc]
                    /\ loc' = [loc EXCEPT ![c] = nxt.loc]
           ELSE LET nxt == AfterCoi(L, TRUE, NextInsightId)
                IN  /\ project_insights' = project_insights \cup
                            {NewInsight(NextInsightId, L.project, L.language,
                                        L.analysis_result)}
                    /\ last_commit' = Committed(c, L)
                    /\ pc' = [pc EXCEPT ![c] = nxt.pc]
                    /\ loc' = [loc EXCEPT ![c] = nxt.loc]
    /\ lock' = [lock EXCEPT ![c] = NoLock]
    /\ UNCHANGED <<llm, run, projects, inserted>>

\* ---- storage failures inside create_or_update_insight (SpecFaults only) ----
\* The first query (or anything before the inner try) raises: the outermost
\* except returns (False, None); finally db.close().
coi_select_error(c) ==
    /\ pc[c] = "coi_select"
    /\ LET nxt == AfterCoi([loc[c] EXCEPT !.db_error = TRUE], FALSE, NoRow)
       IN  /\ pc' = [pc EXCEPT ![c] = nxt.pc]
           /\ loc' = [loc EXCEPT ![c] = nxt.loc]
    /\ lock' = [lock EXCEPT ![c] = NoLock]
    /\ UNCHANGED <<llm, run, projects, project_insights, inserted, last_commit>>

\* The first commit raises something other than IntegrityError: except
\* Exception, db.rollback(), (False, None).
coi_commit_errorHoldingLock(c, result) ==
    /\ pc[c] = "coi_await"
    /\ LET nxt == AfterCoi([loc[c] EXCEPT !.db_error = TRUE, !.commits = @ + 1,
                                          !.analysis_result = result],
                           FALSE, NoRow)
       IN  /\ pc' = [pc EXCEPT ![c] = nxt.pc]
           /\ loc' = [loc EXCEPT ![c] = nxt.loc]
    /\ UNCHANGED <<llm, run, projects, project_insights, inserted, last_commit,
                   lock>>

coi_commit_error(c, result) ==
    /\ pc[c] = "coi_await"
    /\ LET nxt == AfterCoi([loc[c] EXCEPT !.db_error = TRUE, !.commits = @ + 1,
                                          !.analysis_result = result],
                           FALSE, NoRow)
       IN  /\ pc' = [pc EXCEPT ![c] = nxt.pc]
           /\ loc' = [loc EXCEPT ![c] = nxt.loc]
    /\ lock' = [lock EXCEPT ![c] = NoLock]
    /\ UNCHANGED <<llm, run, projects, project_insights, inserted, last_commit>>

\* The retry block raises SQLAlchemyError (at its query or at its commit):
\* db.rollback() and the final query, which may raise as well.
coi_retry_error(c, query_ok) ==
    /\ pc[c] \in {"coi_retry_select", "coi_retry_commit"}
    /\ LET nxt == FinalQuery([loc[c] EXCEPT !.db_error = TRUE], query_ok)
       IN  /\ pc' = [pc EXCEPT ![c] = nxt.pc]
           /\ loc' = [loc EXCEPT ![c] = nxt.loc]
    /\ lock' = [lock EXCEPT ![c] = NoLock]
    /\ UNCHANGED <<llm, run, projects, project_insights, inserted, last_commit>>

\* ----------------------------------------------------- check_if_insights_needed
\* needs_analysis[language] = (no row of the pair with analysis_status "success").
check_if_insights_needed_AnyRow(pid, languages) ==
    {l \in languages : InsightsOf(pid, l) = {}}

check_if_insights_needed(pid, languages) ==
    {l \in languages :
        {i \in InsightsOf(pid, l) : i.analysis_status = "success"} = {}}

\* ------------------------------------------------------------------ callers
\* Callers are interchangeable: of two behaviours that differ only in which
\* caller is which, the model keeps the one where caller c starts its
\* operation after caller c - 1 has started its own.
CanStart(c) ==
    /\ pc[c] = "idle"
    /\ IF c = 1 THEN TRUE ELSE pc[c - 1] # "idle"

\* ------------------------------------------------------------ process_project
NextProjectId == Cardinality(projects) + 1

\* Project(...) built from the candidate.
NewProject(id, cand) ==
    [id |-> id, name |-> cand.name, owner |-> cand.owner,
     full_name |-> cand.full_name, description |-> cand.description,
     stars_count |-> Get(cand, "stars_count", 0),
     forks_count |-> Get(cand, "forks_count", 0),
     trending_date |-> cand.trending_date]

\* The assignments of the branch for a project found in storage.
UpdatedProjectNoMerge(row, cand) == row

UpdatedProject(row, cand) ==
    [row EXCEPT !.stars_count = Get(cand, "stars_count", row.stars_count),
                !.forks_count = Get(cand, "forks_count", row.forks_count),
                !.trending_date = Get(cand, "trending_date", row.trending_date)]

\* need_analysis_en = True, need_analysis_zh = True of the new-project branch.
NewProjectNeedsEnOnly == {"en"}

NewProjectNeeds == {"en", "zh"}

\* db.begin() and the SELECT ... FOR UPDATE ... first() by full_name.
pp_select(c, cand) ==
    /\ CanStart(c)
    /\ LET rows == ProjectByFullName(cand.full_name)
           L == [IdleLoc EXCEPT !.op = "pipeline", !.cand = cand,
                                !.full_name = cand.full_name]
       IN  IF rows = {}
           THEN /\ loc' = [loc EXCEPT ![c] = [L EXCEPT !.is_new = TRUE]]
                /\ lock' = lock
           ELSE \E p \in rows :
                    /\ ~LockedByOther(c, "projects", p.id)
                    /\ loc' = [loc EXCEPT ![c] = [L EXCEPT !.project = p.id]]
                    /\ lock' = [lock EXCEPT ![c] = <<"projects", p.id>>]
    /\ pc' = [pc EXCEPT ![c] = "pp_write"]
    /\ UNCHANGED <<llm, run, projects, project_insights, inserted, last_commit>>

\* if is_new_project: db.add(project); db.commit(); db.refresh(project); both
\* languages are needed; db.close() and on to the English block.  The INSERT of
\* a full_name that another call committed meanwhile raises IntegrityError,
\* which the outer except turns into db.rollback() and return False.
\* else: the three assignments, db.commit() (the row lock is released).
pp_writeUncommitted(c) ==
    /\ pc[c] = "pp_write"
    /\ LET L == loc[c]
       IN  IF L.is_new
           THEN IF ProjectFullNameConflict(L.cand.full_name)
                THEN /\ projects' = projects
                     /\ inserted' = inserted
                     /\ pc' = [pc EXCEPT ![c] = "done"]
                     /\ loc' = [loc EXCEPT ![c] = Returned(L, "False", NoRow)]
                ELSE LET nxt == PipelineNext(
                                  [L EXCEPT !.project = NextProjectId,
                                            !.need = NewProjectNeeds], 1)
                     IN  /\ projects' = projects
                         /\ inserted' = [inserted EXCEPT
                                            ![L.cand.full_name] = @ + 1]
                         /\ pc' = [pc EXCEPT ![c] = nxt.pc]
                         /\ loc' = [loc EXCEPT ![c] = nxt.loc]
           ELSE LET row == ProjectById(L.project)
                IN  /\ projects' = (projects \ {row})
                            \cup {UpdatedProject(row, L.cand)}
                    /\ inserted' = inserted
                    /\ pc' = [pc EXCEPT ![c] = "pp_check"]
                    /\ loc' = loc
    /\ lock' = [lock EXCEPT ![c] = NoLock]
    /\ UNCHANGED <<llm, run, project_insights, last_commit>>

pp_write(c) ==
    /\ pc[c] = "pp_write"
    /\ LET L == loc[c]
       IN  IF L.is_new
           THEN IF ProjectFullNameConflict(L.cand.full_name)
                THEN /\ projects' = projects
                     /\ inserted' = inserted
                     /\ pc' = [pc EXCEPT ![c] = "done"]
                     /\ loc' = [loc EXCEPT ![c] = Returned(L, "False", NoRow)]
                ELSE LET nxt == PipelineNext(
                                  [L EXCEPT !.project = NextProjectId,
                                            !.need = NewProjectNeeds], 1)
                     IN  /\ projects' = projects \cup
                                {NewProject(NextProjectId, L.cand)}
                         /\ inserted' = [inserted EXCEPT
                                            ![L.cand.full_name] = @ + 1]
                         /\ pc' = [pc EXCEPT ![c] = nxt.pc]
                         /\ loc' = [loc EXCEPT ![c] = nxt.loc]
           ELSE LET row == ProjectById(L.project)
                IN  /\ projects' = (projects \ {row})
                            \cup {UpdatedProject(row, L.cand)}
                    /\ inserted' = inserted
                    /\ pc' = [pc EXCEPT ![c] = "pp_check"]
                    /\ loc' = loc
    /\ lock' = [lock EXCEPT ![c] = NoLock]
    /\ UNCHANGED <<llm, run, project_insights, last_commit>>

\* analysis_needs = check_if_insights_needed(project, ["en", "zh"]) in a session
\* of its own, then db.close() and on to the English block.
pp_checkKeepingLock(c) ==
    /\ pc[c] = "pp_check"
    /\ LET need == check_if_insights_needed(loc[c].project, {"en", "zh"})
           nxt == PipelineNext([loc[c] EXCEPT !.need = need,
                                              !.queried = TRUE], 1)
       IN  /\ pc' = [pc EXCEPT ![c] = nxt.pc]
           /\ loc' = [loc EXCEPT ![c] = nxt.loc]
    /\ lock' = [lock EXCEPT ![c] = <<"projects", loc[c].project>>]
    /\ UNCHANGED <<llm, run, projects, project_insights, inserted, last_commit>>

pp_check(c) ==
    /\ pc[c] = "pp_check"
    /\ LET need == check_if_insights_needed(loc[c].project, {"en", "zh"})
           nxt == PipelineNext([loc[c] EXCEPT !.need = need,
                                              !.queried = TRUE], 1)
       IN  /\ pc' = [pc EXCEPT ![c] = nxt.pc]
           /\ loc' = [loc EXCEPT ![c] = nxt.loc]
    /\ UNCHANGED <<llm, run, projects, project_insights, lock, inserted, last_commit>>

\* ---- storage failures inside process_project (SpecFaults only) ----
\* The query or the commit raises: except Exception, db.rollback(), return False.
pp_db_errorDropping(c, cand) ==
    /\ \/ pc[c] = "pp_write" /\ cand = loc[c].cand
          /\ loc' = [loc EXCEPT ![c] =
                 Returned([loc[c] EXCEPT !.db_error = TRUE], "False", NoRow)]
       \/ CanStart(c)
          /\ loc' = [loc EXCEPT ![c] =
                 [IdleLoc EXCEPT !.op = "pipeline", !.cand = cand,
                                 !.full_name = cand.full_name,
                                 !.ret = "False", !.db_error = TRUE]]
    /\ pc' = [pc EXCEPT ![c] = "done"]
    /\ lock' = [lock EXCEPT ![c] = NoLock]
    /\ projects' = projects \ ProjectByFullName(cand.full_name)
    /\ UNCHANGED <<llm, run, project_insights, inserted, last_commit>>

pp_db_error(c, cand) ==
    /\ \/ pc[c] = "pp_write" /\ cand = loc[c].cand
          /\ loc' = [loc EXCEPT ![c] =
                 Returned([loc[c] EXCEPT !.db_error = TRUE], "False", NoRow)]
       \/ CanStart(c)
          /\ loc' = [loc EXCEPT ![c] =
                 [IdleLoc EXCEPT !.op = "pipeline", !.cand = cand,
                                 !.full_name = cand.full_name,
                                 !.ret = "False", !.db_error = TRUE]]
    /\ pc' = [pc EXCEPT ![c] = "done"]
    /\ lock' = [lock EXCEPT ![c] = NoLock]
    /\ UNCHANGED <<llm, run, projects, project_insights, inserted, last_commit>>

\* The query inside check_if_insights_needed raises: every language is
\* reported as needed.
pp_check_error(c) ==
    /\ pc[c] = "pp_check"
    /\ LET nxt == PipelineNext([loc[c] EXCEPT !.need = {"en", "zh"},
                                              !.queried = TRUE,
                                              !.db_error = TRUE], 1)
       IN  /\ pc' = [pc EXCEPT ![c] = nxt.pc]
           /\ loc' = [loc EXCEPT ![c] = nxt.loc]
    /\ UNCHANGED <<llm, run, projects, project_insights, lock, inserted, last_commit>>

\* ------------------------------------------------ get_project_insights_by_name
\* .order_by(created_at.desc()).first(): the row of the pair created last.
LatestInsight(pid, language) ==
    CHOOSE i \in InsightsOf(pid, language) :
        \A j \in InsightsOf(pid, language) : j.id <= i.id

\* The project query (404 when absent), the insight query, and the branch on
\* its status: a success row is returned as it is; an absent or failed one goes
\* to create_or_update_insight.
rd_startAlwaysAnalyze(c, fn, language) ==
    /\ CanStart(c)
    /\ LET L == [IdleLoc EXCEPT !.op = "read", !.full_name = fn,
                                !.language = language]
       IN  IF ProjectByFullName(fn) = {}
           THEN /\ pc' = [pc EXCEPT ![c] = "done"]
                /\ loc' = [loc EXCEPT ![c] = [L EXCEPT !.ret = "404"]]
           ELSE LET project == CHOOSE p \in ProjectByFullName(fn) : TRUE
                    P == [L EXCEPT !.project = project.id]
                IN  /\ pc' = [pc EXCEPT ![c] = "coi_select"]
                    /\ loc' = [loc EXCEPT ![c] = EnterCoi(P, language)]
    /\ UNCHANGED <<llm, run, projects, project_insights, lock, inserted, last_commit>>

rd_start(c, fn, language) ==
    /\ CanStart(c)
    /\ LET L == [IdleLoc EXCEPT !.op = "read", !.full_name = fn,
                                !.language = language]
       IN  IF ProjectByFullName(fn) = {}
           THEN /\ pc' = [pc EXCEPT ![c] = "done"]
                /\ loc' = [loc EXCEPT ![c] = [L EXCEPT !.ret = "404"]]
           ELSE LET project == CHOOSE p \in ProjectByFullName(fn) : TRUE
                    P == [L EXCEPT !.project = project.id]
                IN  IF /\ InsightsOf(project.id, language) # {}
                       /\ LatestInsight(project.id, language).analysis_status
                              = "success"
                    THEN /\ pc' = [pc EXCEPT ![c] = "done"]
                         /\ loc' = [loc EXCEPT ![c] =
                                [P EXCEPT !.ret = "insight",
                                          !.ret_insight =
                                              LatestInsight(project.id, language).id]]
                    ELSE /\ pc' = [pc EXCEPT ![c] = "coi_select"]
                         /\ loc' = [loc EXCEPT ![c] = EnterCoi(P, language)]
    /\ UNCHANGED <<llm, run, projects, project_insights, lock, inserted, last_commit>>

\* The dictionary the endpoint returns in place of a row; business_value is the
\* one text in which its three occurrences differ.
PlaceholderNoStatus(pid, language, business_value) ==
    [id |-> -1, project_id |-> pid, language |-> language,
     business_value |-> business_value,
     market_opportunity |-> <<"No data, please try again later", 0>>,
     startup_ideas |-> <<"No data, please try again later", 0>>,
     target_audience |-> <<"No data, please try again later", 0>>,
     competition_analysis |-> <<"No data, please try again later", 0>>,
     analysis_version |-> "unknown"]

Placeholder(pid, language, business_value) ==
    [id |-> -1, project_id |-> pid, language |-> language,
     business_value |-> business_value,
     market_opportunity |-> <<"No data, please try again later", 0>>,
     startup_ideas |-> <<"No data, please try again later", 0>>,
     target_audience |-> <<"No data, please try again later", 0>>,
     competition_analysis |-> <<"No data, please try again later", 0>>,
     analysis_version |-> "unknown",
     analysis_status |-> "failed"]

\* business_value of the dictionary returned after (False, None) and an empty
\* re-query, and of the one returned from except Exception.
CannotAnalyze == <<"Cannot analyze project, please try again later", 0>>

ErrorAnalyzing == <<"Sorry, there was an error analyzing this project", 0>>

\* What a finished call of the endpoint handed to its client: the row it
\* returned as storage holds it, or one of the dictionaries.  (The dictionary
\* of except IntegrityError is not among them: create_or_update_insight lets no
\* IntegrityError out and the endpoint writes nothing itself.)
rd_result(L) ==
    CASE L.ret = "insight" -> InsightById(L.ret_insight)
      [] L.ret = "placeholder" -> Placeholder(L.project, L.language, CannotAnalyze)
      [] L.ret = "placeholder_error" ->
             Placeholder(L.project, L.language, ErrorAnalyzing)

\* After (False, None): query the pair once more; return the row found, or the
\* id = -1 dictionary that is not attached to any session, with storage left
\* as it is.
rd_requeryStoring(c) ==
    /\ pc[c] = "rd_requery"
    /\ pc' = [pc EXCEPT ![c] = "done"]
    /\ IF InsightsOf(loc[c].project, loc[c].language) # {}
       THEN /\ loc' = [loc EXCEPT ![c] = Returned(loc[c], "insight",
                          LatestInsight(loc[c].project, loc[c].language).id)]
            /\ project_insights' = project_insights
       ELSE /\ loc' = [loc EXCEPT ![c] = Returned(loc[c], "placeholder", -1)]
            /\ project_insights' = project_insights \cup
                   {Placeholder(loc[c].project, loc[c].language, CannotAnalyze)}
    /\ UNCHANGED <<llm, run, projects, lock, inserted, last_commit>>

rd_requery(c) ==
    /\ pc[c] = "rd_requery"
    /\ pc' = [pc EXCEPT ![c] = "done"]
    /\ IF InsightsOf(loc[c].project, loc[c].language) # {}
       THEN loc' = [loc EXCEPT ![c] = Returned(loc[c], "insight",
                          LatestInsight(loc[c].project, loc[c].language).id)]
       ELSE loc' = [loc EXCEPT ![c] = Returned(loc[c], "placeholder", -1)]
    /\ UNCHANGED <<llm, run, projects, project_insights, lock, inserted, last_commit>>

\* ---- storage failures inside the endpoint's try block (SpecFaults only) ----
\* The insight query, or the re-query after (False, None), raises: except
\* Exception returns the id = -1 dictionary that carries the error.
rd_query_error(c, fn, language) ==
    /\ \/ /\ CanStart(c)
          /\ ProjectByFullName(fn) # {}
          /\ loc' = [loc EXCEPT ![c] =
                 [IdleLoc EXCEPT
                     !.op = "read", !.full_name = fn, !.language = language,
                     !.project = (CHOOSE p \in ProjectByFullName(fn) : TRUE).id,
                     !.ret = "placeholder_error", !.ret_insight = -1]]
       \/ /\ pc[c] = "rd_requery"
          /\ fn = loc[c].full_name
          /\ language = loc[c].language
          /\ loc' = [loc EXCEPT ![c] =
                 Returned(loc[c], "placeholder_error", -1)]
    /\ pc' = [pc EXCEPT ![c] = "done"]
    /\ UNCHANGED <<llm, run, projects, project_insights, lock, inserted, last_commit>>

\* ------------------------------------------------------ analyze_single_project
\* The project is one that analyze_projects_task read from storage earlier.  The
\* pre-check returns True on a success row; otherwise create_or_update_insight.
an_startClearing(c, pid, language) ==
    /\ CanStart(c)
    /\ LET L == [IdleLoc EXCEPT !.op = "batch", !.project = pid,
                                !.full_name = ProjectById(pid).full_name,
                                !.language = language]
       IN  IF \E i \in InsightsOf(pid, language) : i.analysis_status = "success"
           THEN /\ pc' = [pc EXCEPT ![c] = "done"]
                /\ loc' = [loc EXCEPT ![c] = [L EXCEPT !.ret = "True"]]
                /\ project_insights' = project_insights
           ELSE /\ pc' = [pc EXCEPT ![c] = "coi_select"]
                /\ loc' = [loc EXCEPT ![c] = EnterCoi(L, language)]
                /\ project_insights' = project_insights \ InsightsOf(pid, language)
    /\ UNCHANGED <<llm, run, projects, lock, inserted, last_commit>>

an_start(c, pid, language) ==
    /\ CanStart(c)
    /\ LET L == [IdleLoc EXCEPT !.op = "batch", !.project = pid,
                                !.full_name = ProjectById(pid).full_name,
                                !.language = language]
       IN  IF \E i \in InsightsOf(pid, language) : i.analysis_status = "success"
           THEN /\ pc' = [pc EXCEPT ![c] = "done"]
                /\ loc' = [loc EXCEPT ![c] = [L EXCEPT !.ret = "True"]]
           ELSE /\ pc' = [pc EXCEPT ![c] = "coi_select"]
                /\ loc' = [loc EXCEPT ![c] = EnterCoi(L, language)]
    /\ UNCHANGED <<llm, run, projects, project_insights, lock, inserted, last_commit>>

\* ------------------------------------------------------------- specification
Next ==
    \/ \E c \in Callers, cand \in Candidates : pp_select(c, cand)
    \/ \E c \in Callers : pp_write(c)
    \/ \E c \in Callers : pp_check(c)
    \/ \E c \in Callers, fn \in FullNames, l \in Languages : rd_start(c, fn, l)
    \/ \E c \in Callers, p \in projects, l \in Languages : an_start(c, p.id, l)
    \/ \E c \in Callers : coi_select(c)
    \/ \E c \in Callers : \E result \in AnalyzeOutcomes(c, loc[c].language) :
           coi_commit(c, result)
    \/ \E c \in Callers : coi_retry_select(c)
    \/ \E c \in Callers : coi_retry_commit(c)

Spec == Init /\ [][Next]_vars

\* The same callers against a storage that may fail at any round trip.
NextFaults ==
    \/ Next
    \/ \E c \in Callers : coi_select_error(c)
    \/ \E c \in Callers : \E result \in AnalyzeOutcomes(c, loc[c].language) :
           coi_commit_error(c, result)
    \/ \E c \in Callers, query_ok \in BOOLEAN : coi_retry_error(c, query_ok)
    \/ \E c \in Callers, cand \in Candidates : pp_db_error(c, cand)
    \/ \E c \in Callers : pp_check_error(c)
    \/ \E c \in Callers : rd_requery(c)
    \/ \E c \in Callers, fn \in FullNames, l \in Languages :
           rd_query_error(c, fn, l)

SpecFaults == Init /\ [][NextFaults]_vars

\* A storage that earlier runs have left behind: the project sighted once,
\* with a failed English Insight and no Chinese one.
InitStored ==
    /\ projects = {NewProject(1, Sighting("acme/widget", 1))}
    /\ project_insights = {NewInsight(1, 1, "en", get_default_analysis("en"))}
    /\ lock = [c \in Callers |-> NoLock]
    /\ pc = [c \in Callers |-> "idle"]
    /\ loc = [c \in Callers |-> IdleLoc]
    /\ inserted = [fn \in FullNames |-> 1]
    /\ last_commit = [k \in (1..MaxOps) \X Languages |->
                         IF k = <<1, "en">> THEN get_default_analysis("en")
                                            ELSE NoCommit]
    /\ llm = NoCall
    /\ run = NoRun

\* The callers of SpecFaults on that storage.
SpecStored == InitStored /\ [][NextFaults]_vars

\* The callers of Spec on that storage, at a time when the generator succeeds
\* for every call that process_project makes; the calls of the batch task and
\* of the read endpoint may have started earlier and may still fail.
NextRetry ==
    \/ \E c \in Callers, cand \in Candidates : pp_select(c, cand)
    \/ \E c \in Callers : pp_write(c)
    \/ \E c \in Callers : pp_check(c)
    \/ \E c \in Callers, fn \in FullNames, l \in Languages : rd_start(c, fn, l)
    \/ \E c \in Callers, p \in projects, l \in Languages : an_start(c, p.id, l)
    \/ \E c \in Callers : coi_select(c)
    \/ \E c \in Callers :
           \E result \in IF loc[c].op = "pipeline"
                         THEN {LlmPayload(c, loc[c].language)}
                         ELSE AnalyzeOutcomes(c, loc[c].language) :
               coi_commit(c, result)
    \/ \E c \in Callers : coi_retry_select(c)
    \/ \E c \in Callers : coi_retry_commit(c)

SpecRetry == InitStored /\ [][NextRetry]_vars

\* The callers of Spec, with process_project calls whose candidate carries no
\* counts among them.
NextSparse ==
    \/ Next
    \/ \E c \in Callers, cand \in SparseCandidates : pp_select(c, cand)

SpecSparse == Init /\ [][NextSparse]_vars

\* The callers of Spec on that storage, with read requests that name any
\* language.
NextAnyLanguage ==
    \/ Next
    \/ \E c \in Callers, fn \in FullNames, l \in RequestLanguages \ Languages :
           rd_start(c, fn, l)

SpecAnyLanguage == InitStored /\ [][NextAnyLanguage]_vars

\* ---- the callers as coroutines of one event loop ----
\* get_project_insights_by_name and analyze_projects_task (a background task of
\* the admin endpoint) are async functions that the server runs on its one
\* event loop.  Their queries and commits are synchronous calls of a
\* synchronous Session: the coroutine that makes one keeps the loop's thread
\* until the call comes back, and the only place where
\* create_or_update_insight gives the thread up is the awaited generator call.
\* Caller c may take a step when no other coroutine is between two awaits.
LoopFree(c) ==
    \A d \in Callers \ {c} : pc[d] \in {"idle", "done", "coi_await"}

\* A SELECT ... FOR UPDATE of a row that another coroutine locked while it
\* awaits the generator waits in the thread that the lock's holder needs.
NextLoop ==
    \/ \E c \in Callers, fn \in FullNames, l \in Languages :
           LoopFree(c) /\ rd_start(c, fn, l)
    \/ \E c \in Callers, p \in projects, l \in Languages :
           LoopFree(c) /\ an_start(c, p.id, l)
    \/ \E c \in Callers : LoopFree(c) /\ coi_select(c)
    \/ \E c \in Callers : \E result \in AnalyzeOutcomes(c, loc[c].language) :
           LoopFree(c) /\ coi_commit(c, result)
    \/ \E c \in Callers : LoopFree(c) /\ coi_retry_select(c)
    \/ \E c \in Callers : LoopFree(c) /\ coi_retry_commit(c)

SpecLoop == InitStored /\ [][NextLoop]_vars

\* The coroutine of caller c is cancelled, or its process ends, while it is
\* inside create_or_update_insight and has not committed: finally db.close()
\* (or the lost connection) rolls the open transaction back, which releases the
\* row lock; nothing was sent to storage but locked reads.
coi_abandonKeepingWrite(c) ==
    /\ InCoi(c)
    /\ pc' = [pc EXCEPT ![c] = "done"]
    /\ loc' = [loc EXCEPT ![c] = Returned(loc[c], "abandoned", NoRow)]
    /\ lock' = [lock EXCEPT ![c] = NoLock]
    /\ project_insights' =
           IF InsightsOf(loc[c].project, loc[c].language) = {}
           THEN project_insights \cup
                    {NewInsight(NextInsightId, loc[c].project, loc[c].language,
                                get_default_analysis(loc[c].language))}
           ELSE project_insights
    /\ UNCHANGED <<llm, run, projects, inserted, last_commit>>

coi_abandon(c) ==
    /\ InCoi(c)
    /\ pc' = [pc EXCEPT ![c] = "done"]
    /\ loc' = [loc EXCEPT ![c] = Returned(loc[c], "abandoned", NoRow)]
    /\ lock' = [lock EXCEPT ![c] = NoLock]
    /\ UNCHANGED <<llm, run, projects, project_insights, inserted, last_commit>>

\* Spec with callers that may be abandoned inside create_or_update_insight.
NextAbandon ==
    \/ Next
    \/ \E c \in Callers : coi_abandon(c)

SpecAbandon == Init /\ [][NextAbandon]_vars

\* What analyze_project returns when parsing the model's answer raises: the
\* fallback of _parse_llm_response's except branch, which analyze_project then
\* marks "success".
RelabelledFallback(language) ==
    [get_default_analysis(language) EXCEPT !.analysis_status = "success"]

\* Spec with that outcome of the generator added to the two of AnalyzeOutcomes.
NextRelabel ==
    \/ Next
    \/ \E c \in Callers :
           coi_commit(c, RelabelledFallback(loc[c].language))

SpecRelabel == Init /\ [][NextRelabel]_vars

\* ============================================ _scrape_github_trending_async
\* One run of the pipeline driver: for each language filter it fetches the
\* trending page and hands every project of it to process_project, one after
\* the other, counting into result_stats.  The process_project calls of the run
\* are the pipeline steps of the caller Driver.
MaxFilters == 2
MaxBatch == 2

\* languages_to_scrape, by position.
Filters == 1..MaxFilters

\* languages_to_scrape as the keys lang_key of result_stats["languages"]: a
\* list that names every language once, and the lists that may name one twice.
DistinctKeys == [k \in Filters |-> k]

AnyKeys == [Filters -> Filters]

Driver == 1

\* What the trending page of one filter may list.
Batches == UNION {[1..n -> Candidates] : n \in 0..MaxBatch}

\* The fetch of one page, which lists items: it goes through, or the request,
\* raise_for_status or the parse raises.
FetchOutcomes == {[ok |-> ok, items |-> b] : ok \in BOOLEAN, b \in Batches}

\* GitHubScraper.get_trending_projects: the parsed projects; any exception is
\* logged and the empty list returned.
get_trending_projectsLeaky(outcome) == outcome.items

get_trending_projects(outcome) ==
    IF outcome.ok THEN outcome.items ELSE <<>>

\* result_stats as the run starts; languages holds one entry per key begun.
ZeroStats ==
    [total_scraped |-> 0, total_analyzed |-> 0, new_projects |-> 0,
     updated_projects |-> 0, failed_analysis |-> 0, languages |-> <<>>]

\* The two for loops: on to the next project, else the next filter, else
\* return result_stats.
Advance(r) ==
    IF r.projects # <<>>
    THEN r
    ELSE IF r.k < MaxFilters
         THEN [r EXCEPT !.stage = "fetch", !.k = @ + 1]
         ELSE [r EXCEPT !.stage = "returned", !.result = "stats"]

\* scraper = GitHubScraper(), result_stats = {...}, languages_to_scrape.
\* upserted and fetch_ok are history: the process_project calls of the run
\* that committed their Project row, and whether the last fetch went through.
dr_begin(keys) ==
    /\ run.stage = "idle"
    /\ \A c \in Callers : pc[c] = "idle"
    /\ run' = [stage |-> "fetch", k |-> 1, keys |-> keys, projects |-> <<>>,
               stats |-> ZeroStats, result |-> "none", upserted |-> 0,
               fetch_ok |-> TRUE]
    /\ UNCHANGED <<llm, projects, project_insights, lock, pc, loc, inserted,
                   last_commit>>

\* The head of the loop over the filters: the entry of the filter in
\* result_stats["languages"], the fetch, and the two scraped counts.
dr_fetch(outcome) ==
    /\ run.stage = "fetch"
    /\ LET fetched == get_trending_projects(outcome)
           stats == [run.stats EXCEPT
                        !.languages = SetKey(@, run.keys[run.k],
                                             [scraped |-> Len(fetched),
                                              analyzed |-> 0]),
                        !.total_scraped = @ + Len(fetched)]
       IN  run' = Advance([run EXCEPT !.stage = "process",
                                      !.projects = fetched,
                                      !.stats = stats,
                                      !.fetch_ok = outcome.ok])
    /\ UNCHANGED <<llm, projects, project_insights, lock, pc, loc, inserted,
                   last_commit>>

\* success = await process_project(project_data): the call begins.
dr_process ==
    /\ run.stage = "process"
    /\ run.projects # <<>>
    /\ pp_select(Driver, Head(run.projects))

\* process_project has returned: if success the two analyzed counts, else
\* failed_analysis.
dr_collect ==
    /\ run.stage = "process"
    /\ pc[Driver] = "done"
    /\ LET L == loc[Driver]
           success == L.ret = "True"
           committed == \/ L.is_new /\ L.project # NoRow
                        \/ ~L.is_new /\ success
           stats == IF success
                    THEN [run.stats EXCEPT
                             !.languages[run.keys[run.k]].analyzed = @ + 1,
                             !.total_analyzed = @ + 1]
                    ELSE [run.stats EXCEPT !.failed_analysis = @ + 1]
       IN  run' = Advance([run EXCEPT
                              !.projects = Tail(@),
                              !.stats = stats,
                              !.upserted = IF committed THEN @ + 1 ELSE @])
    /\ pc' = [pc EXCEPT ![Driver] = "idle"]
    /\ loc' = [loc EXCEPT ![Driver] = IdleLoc]
    /\ UNCHANGED <<llm, projects, project_insights, lock, inserted,
                   last_commit>>

\* One run and nothing beside it, on a storage that may fail inside
\* create_or_update_insight and inside process_project's try block.
NextDriver ==
    \/ dr_begin(DistinctKeys)
    \/ \E outcome \in FetchOutcomes : dr_fetch(outcome)
    \/ dr_process
    \/ dr_collect
    \/ run.stage = "process" /\ pp_write(Driver)
    \/ run.stage = "process" /\ pp_check(Driver)
    \/ run.stage = "process" /\ coi_select(Driver)
    \/ /\ run.stage = "process"
       /\ \E result \in AnalyzeOutcomes(Driver, loc[Driver].language) :
              coi_commit(Driver, result)
    \/ run.stage = "process" /\ coi_select_error(Driver)
    \/ /\ run.stage = "process"
       /\ \E result \in AnalyzeOutcomes(Driver, loc[Driver].language) :
              coi_commit_error(Driver, result)
    \/ /\ run.stage = "process"
       /\ run.projects # <<>>
       /\ pp_db_error(Driver, Head(run.projects))
    \/ run.stage = "process" /\ pp_check_error(Driver)

SpecDriver == Init /\ [][NextDriver]_vars

\* The run with any list of languages to scrape.
NextDriverKeys ==
    \/ NextDriver
    \/ \E keys \in AnyKeys : dr_begin(keys)

SpecDriverKeys == Init /\ [][NextDriverKeys]_vars

\* The storage fails inside process_project's try block and db.rollback() in
\* the except block fails as well (the connection is gone): the exception
\* leaves process_project and is caught by the driver's own except, which
\* returns {"error": ..., "stats": result_stats}.
dr_rollback_error ==
    /\ run.stage = "process"
    /\ run.projects # <<>>
    /\ pc[Driver] \in {"idle", "pp_write"}
    /\ run' = [run EXCEPT !.stage = "returned", !.result = "error"]
    /\ pc' = [pc EXCEPT ![Driver] = "idle"]
    /\ loc' = [loc EXCEPT ![Driver] = IdleLoc]
    /\ lock' = [lock EXCEPT ![Driver] = NoLock]
    /\ UNCHANGED <<llm, projects, project_insights, inserted, last_commit>>

NextDriverFaults ==
    \/ NextDriver
    \/ dr_rollback_error

SpecDriverFaults == Init /\ [][NextDriverFaults]_vars

\* ===================================================== analyze_projects_task
\* One run of the batch task on a storage that holds MaxStored projects: it
\* selects the projects to analyze and calls analyze_single_project for every
\* selected project and every language of its list, one call after the other.
\* The run is kept in the variable run, and its analyze_single_project calls
\* are the batch steps of the caller Driver.
MaxStored == 2

StoredNames == <<"acme/widget", "acme/gadget", "acme/gizmo", "acme/doodad">>

StoredIds == 1..MaxStored

\* The limit argument and the languages argument (a list: it has an order and
\* may name a language twice).
Limits == 0..MaxStored

LanguageLists == UNION {[1..n -> Languages] : n \in 0..Cardinality(Languages)}

\* The order of the pairs by which the rows of the initial storage are numbered.
PairKey(pid, language) == 2 * pid + (IF language = "zh" THEN 1 ELSE 0)

\* The Insight table in which exactly the pairs of S have a row, each a
\* success row written by an earlier call.
StoredInsights(S) ==
    {NewInsight(Cardinality({q \in S : PairKey(q[1], q[2]) < PairKey(k[1], k[2])}) + 1,
                k[1], k[2], LlmPayload(Driver, k[2])) : k \in S}

\* A storage that earlier runs have left behind: MaxStored projects, each pair
\* of them with a success Insight or with none.
InitBatch ==
    /\ projects = {NewProject(i, Sighting(StoredNames[i], 1)) : i \in StoredIds}
    /\ \E S \in SUBSET (StoredIds \X Languages) :
           /\ project_insights = StoredInsights(S)
           /\ last_commit = [k \in (1..MaxOps) \X Languages |->
                                IF k \in S THEN LlmPayload(Driver, k[2])
                                           ELSE NoCommit]
    /\ lock = [c \in Callers |-> NoLock]
    /\ pc = [c \in Callers |-> "idle"]
    /\ loc = [c \in Callers |-> IdleLoc]
    /\ inserted = [fn \in FullNames |->
                      IF \E i \in StoredIds : StoredNames[i] = fn THEN 1 ELSE 0]
    /\ llm = NoCall
    /\ run = NoRun

\* The outer join of get_projects_without_insights: the projects without a
\* success Insight in the language.
Eligible(language) ==
    {p.id : p \in {q \in projects :
                      \A i \in InsightsOf(q.id, language) :
                          i.analysis_status # "success"}}

\* The lists without repetition of n members of S.
Arrangements(S, n) ==
    {f \in [1..n -> S] : \A a, b \in 1..n : a # b => f[a] # f[b]}

\* query.limit(remaining).all(): the query has no ORDER BY, so it returns any
\* remaining of the eligible projects, in any order, or all when there are
\* fewer.
Fetches(language, remaining) ==
    LET E == Eligible(language)
        n == IF Cardinality(E) < remaining THEN Cardinality(E) ELSE remaining
    IN  Arrangements(E, n)

RECURSIVE AppendNew(_, _)
\* for project in language_projects: if project not in projects: append.
AppendNewDuplicating(list, fetched) == list \o fetched

AppendNew(list, fetched) ==
    IF fetched = <<>>
    THEN list
    ELSE AppendNew(IF \E a \in 1..Len(list) : list[a] = Head(fetched)
                   THEN list
                   ELSE Append(list, Head(fetched)),
                   Tail(fetched))

\* The head of the loop over the languages in get_projects_without_insights,
\* and what follows its end: the next language is queried unless the list has
\* reached the limit; after the loop the task starts on the first selected
\* project, or returns when nothing was selected or no language is asked for.
AfterRound(r) ==
    IF r.i <= Len(r.languages) /\ Len(r.projects_to_analyze) < r.limit
    THEN r
    ELSE IF r.projects_to_analyze = <<>> \/ r.languages = <<>>
         THEN [r EXCEPT !.stage = "returned"]
         ELSE [r EXCEPT !.stage = "analyze"]

\* analyze_projects_task(limit, languages) begins.
bt_begin(limit, languages) ==
    /\ run.stage = "idle"
    /\ \A c \in Callers : pc[c] = "idle"
    /\ run' = AfterRound([stage |-> "select", limit |-> limit,
                          languages |-> languages, i |-> 1,
                          projects_to_analyze |-> <<>>, p |-> 1, l |-> 1])
    /\ UNCHANGED <<llm, projects, project_insights, lock, pc, loc, inserted,
                   last_commit>>

\* One round of the selection loop: the query of one language.
bt_select(fetched) ==
    /\ run.stage = "select"
    /\ fetched \in Fetches(run.languages[run.i],
                           run.limit - Len(run.projects_to_analyze))
    /\ run' = AfterRound([run EXCEPT
                             !.projects_to_analyze = AppendNew(@, fetched),
                             !.i = @ + 1])
    /\ UNCHANGED <<llm, projects, project_insights, lock, pc, loc, inserted,
                   last_commit>>

\* await analyze_single_project(project, language): the call begins.
bt_analyze ==
    /\ run.stage = "analyze"
    /\ an_start(Driver, run.projects_to_analyze[run.p], run.languages[run.l])

\* analyze_single_project has returned: the next language, else the next
\* project, else the task returns.
bt_collect ==
    /\ run.stage = "analyze"
    /\ pc[Driver] = "done"
    /\ run' = IF run.l < Len(run.languages)
              THEN [run EXCEPT !.l = @ + 1]
              ELSE IF run.p < Len(run.projects_to_analyze)
                   THEN [run EXCEPT !.p = @ + 1, !.l = 1]
                   ELSE [run EXCEPT !.stage = "returned"]
    /\ pc' = [pc EXCEPT ![Driver] = "idle"]
    /\ loc' = [loc EXCEPT ![Driver] = IdleLoc]
    /\ UNCHANGED <<llm, projects, project_insights, lock, inserted,
                   last_commit>>

\* One run of the task and nothing beside it.
NextBatch ==
    \/ \E limit \in Limits, languages \in LanguageLists :
           bt_begin(limit, languages)
    \/ \E fetched \in UNION {Arrangements(StoredIds, n) : n \in 0..MaxStored} :
           bt_select(fetched)
    \/ bt_analyze
    \/ bt_collect
    \/ run.stage = "analyze" /\ coi_select(Driver)
    \/ /\ run.stage = "analyze"
       /\ \E result \in AnalyzeOutcomes(Driver, loc[Driver].language) :
              coi_commit(Driver, result)

SpecBatch == InitBatch /\ [][NextBatch]_vars

\* ------------------------------------------------------------ ProjectAnalyzer
\* The text of a model answer is a sequence of tokens: section tags, a code
\* fence, a whitespace character and a character of content.
MaxLen == 5

sections ==
    <<"business_value", "market_opportunity", "startup_ideas",
      "target_audience", "competition_analysis">>

SectionSet == {sections[k] : k \in 1..Len(sections)}

OpenTag(tag_name) ==
    CASE tag_name = "business_value" -> "<business_value>"
      [] tag_name = "market_opportunity" -> "<market_opportunity>"
      [] tag_name = "startup_ideas" -> "<startup_ideas>"
      [] tag_name = "target_audience" -> "<target_audience>"
      [] tag_name = "competition_analysis" -> "<competition_analysis>"

CloseTag(tag_name) ==
    CASE tag_name = "business_value" -> "</business_value>"
      [] tag_name = "market_opportunity" -> "</market_opportunity>"
      [] tag_name = "startup_ideas" -> "</startup_ideas>"
      [] tag_name = "target_audience" -> "</target_audience>"
      [] tag_name = "competition_analysis" -> "</competition_analysis>"

\* Three backquotes.
Fence == "[fence]"
Space == " "

\* The tokens of the answers the model is run on: the tags of two of the five
\* sections (the other three are then missing from every answer).
Tokens ==
    {"x", Space, Fence} \cup
    {OpenTag(t) : t \in {"business_value", "startup_ideas"}} \cup
    {CloseTag(t) : t \in {"business_value", "startup_ideas"}}

Texts == UNION {[1..n -> Tokens] : n \in 0..MaxLen}

\* What openai.ChatCompletion.acreate can do: raise, answer without a choice,
\* answer with a message that has no content, answer with a text.
Responses ==
    {[kind |-> k, text |-> <<>>] :
        k \in {"raises", "timeout", "no_choice", "no_content"}}
        \cup {[kind |-> "text", text |-> t] : t \in Texts}

\* str.strip(): leading and trailing whitespace removed.
RECURSIVE lstrip(_)
lstrip(text) ==
    IF text # <<>> /\ Head(text) = Space THEN lstrip(Tail(text)) ELSE text

RECURSIVE rstrip(_)
rstrip(text) ==
    IF text # <<>> /\ text[Len(text)] = Space
    THEN rstrip(SubSeq(text, 1, Len(text) - 1))
    ELSE text

strip(text) == rstrip(lstrip(text))

\* The position of the first token tok at or after position from; 0 for none.
RECURSIVE Find(_, _, _)
Find(text, tok, from) ==
    IF from > Len(text) THEN 0
    ELSE IF text[from] = tok THEN from
    ELSE Find(text, tok, from + 1)

\* re.search(rf"<{tag_name}>([\s\S]*?)</{tag_name}>", text): the leftmost
\* opening tag that has a closing tag after it, the group running up to the
\* first such closing tag; match.group(1).strip(), or "" without a match.
extract_xml(text, tag_name) ==
    LET i == Find(text, OpenTag(tag_name), 1)
        j == IF i = 0 THEN 0 ELSE Find(text, CloseTag(tag_name), i + 1)
    IN  IF j = 0 THEN <<>> ELSE strip(SubSeq(text, i + 1, j - 1))

CleanedTextWhole(response_text) == strip(response_text)

\* cleaned_text: response_text.strip(), replaced by the stripped group of the
\* first match of the pattern fence (?:xml)?\s*([\s\S]*?)\s* fence when there
\* is one.
CleanedText(response_text) ==
    LET t == strip(response_text)
        i == Find(t, Fence, 1)
        j == IF i = 0 THEN 0 ELSE Find(t, Fence, i + 1)
    IN  IF j = 0 THEN t ELSE strip(strip(SubSeq(t, i + 1, j - 1)))

get_default_field_value(language, field) ==
    IF language = "zh"
    THEN <<"zh default of field", field>>
    ELSE <<"en default of field", field>>

validate_analysis_result(language, result) ==
    [f \in SectionSet |->
        IF f \notin DOMAIN result \/ result[f] = <<>>
        THEN get_default_field_value(language, f)
        ELSE result[f]]

\* _parse_llm_response.  A message without content makes response_text.strip()
\* raise inside the try block: the except branch returns _get_default_analysis().
parse_llm_response(language, response) ==
    IF response.kind = "no_content"
    THEN get_default_analysis(language)
    ELSE LET cleaned_text == CleanedText(response.text)
             result == [section \in SectionSet |->
                           LET content == extract_xml(cleaned_text, section)
                           IN  IF content # <<>> THEN content
                               ELSE get_default_field_value(language, section)]
         IN  validate_analysis_result(language, result)

\* analyze_project, from the call of the model to the return.
analyze_project(language, response) ==
    IF response.kind \in {"raises", "timeout", "no_choice"}
    THEN get_default_analysis(language)
    ELSE LET result == parse_llm_response(language, response)
         IN  [business_value |-> result.business_value,
              market_opportunity |-> result.market_opportunity,
              startup_ideas |-> result.startup_ideas,
              target_audience |-> result.target_audience,
              competition_analysis |-> result.competition_analysis,
              analysis_status |-> "success",
              language |-> language]

\* ProjectAnalyzer(output_language = language).analyze_project(project_data) is
\* called and the model call ends with response.  The call passes no
\* request_timeout: a model that does not answer ends the call with the Timeout
\* error the openai client raises after its default request timeout, the kind
\* "timeout" of Responses.
az_call(language, response) ==
    /\ llm.stage = "idle"
    /\ llm' = [stage |-> "called", language |-> language, response |-> response]
    /\ UNCHANGED <<projects, project_insights, lock, pc, loc, inserted,
                   last_commit, run>>

\* The rest of the try block, or the except branch, and the return.
az_returnUnlessTimeout ==
    /\ llm.stage = "called"
    /\ llm.response.kind # "timeout"
    /\ llm' = [stage |-> "returned", language |-> llm.language,
               response |-> llm.response,
               result |-> analyze_project(llm.language, llm.response)]
    /\ UNCHANGED <<projects, project_insights, lock, pc, loc, inserted,
                   last_commit, run>>

az_return ==
    /\ llm.stage = "called"
    /\ llm' = [stage |-> "returned", language |-> llm.language,
               response |-> llm.response,
               result |-> analyze_project(llm.language, llm.response)]
    /\ UNCHANGED <<projects, project_insights, lock, pc, loc, inserted,
                   last_commit, run>>

NextAnalyzer ==
    \/ /\ llm.stage = "idle"
       /\ \E language \in Languages, response \in Responses :
              az_call(language, response)
    \/ az_return

SpecAnalyzer == Init /\ [][NextAnalyzer]_vars

\* The same call with answers of at most MaxAnswer tokens.  The event loop
\* resumes the coroutine once the awaited model call has ended, be it with an
\* answer, with an error or with the client's Timeout.
MaxAnswer == 2

NextAnalyzerFair ==
    \/ /\ llm.stage = "idle"
       /\ \E language \in Languages :
              \E response \in {r \in Responses : Len(r.text) <= MaxAnswer} :
                  az_call(language, response)
    \/ az_return

SpecAnalyzerFair == Init /\ [][NextAnalyzerFair]_vars /\ WF_vars(az_return)

\* ------------------------------------------------------------------- claims
\* The generator result that the stored row i carries.
Content(i) ==
    [business_value |-> i.business_value,
     market_opportunity |-> i.market_opportunity,
     startup_ideas |-> i.startup_ideas,
     target_audience |-> i.target_audience,
     competition_analysis |-> i.competition_analysis,
     analysis_status |-> i.analysis_status,
     language |-> i.language]

\* C1: in every reachable storage state, table project_insights holds at most
\* one row per (project_id, language), however the create_or_update_insight
\* calls of pipeline runs, batch analysis and the read endpoint interleave,
\* and whether or not storage operations fail.
C1_InsightUniqueness ==
    \A i, j \in project_insights :
        (i.project_id = j.project_id /\ i.language = j.language) => i = j

\* The unique index has just rejected a second row for a pair: a call found no
\* row, another call's INSERT committed meanwhile, and this call's INSERT failed.
C1_Witness ==
    \E c \in Callers :
        /\ pc[c] = "coi_retry_select"
        /\ loc[c].conflict
        /\ Cardinality(InsightsOf(loc[c].project, loc[c].language)) = 1

\* C2: for every interleaving of process_project calls with the same
\* full_name, at most one Project INSERT for that name ever commits, and every
\* reachable storage state holds at most one projects row per full_name.
C2_ProjectIdentityUniqueness ==
    \A fn \in FullNames :
        /\ inserted[fn] <= 1
        /\ Cardinality(ProjectByFullName(fn)) <= 1
        /\ inserted[fn] = Cardinality(ProjectByFullName(fn))

\* Two process_project calls both found the name absent; one INSERT committed
\* and the other was rejected.
C2_Witness ==
    \E c, d \in Callers :
        /\ c # d
        /\ loc[c].op = "pipeline" /\ loc[d].op = "pipeline"
        /\ loc[c].full_name = loc[d].full_name
        /\ loc[c].is_new /\ loc[c].project # NoRow
        /\ loc[d].is_new /\ loc[d].project = NoRow /\ pc[d] = "done"
        /\ inserted[loc[c].full_name] = 1

\* C3: a create_or_update_insight call whose locked read found a row with
\* analysis_status "success" does not invoke the generator: no call waits on
\* analyze_project while the row it holds is a success row.
C3_IdempotentFastPath ==
    \A c \in Callers :
        (pc[c] = "coi_await" /\ loc[c].existing # NoRow)
            => InsightById(loc[c].existing).analysis_status # "success"

\* C4: once the stored row of a pair has analysis_status "success", no step of
\* any pipeline run, batch analysis or read leaves it with status "failed".
C4_SuccessIsTerminal ==
    [][\A i \in project_insights :
           i.analysis_status = "success" =>
               \A j \in project_insights' :
                   j.id = i.id => j.analysis_status # "failed"]_vars

\* C5: with storage that does not fail, when create_or_update_insight calls
\* race to create the row of a pair, the pair ends with exactly one row, the
\* five text fields and the status of the stored row are the generator result
\* of the call whose write committed last, and every call returns
\* (True, insight) with an insight that is stored for its pair.
C5_LastWriterWins ==
    /\ \A i \in project_insights :
           /\ Content(i) = last_commit[<<i.project_id, i.language>>]
           /\ Cardinality(InsightsOf(i.project_id, i.language)) = 1
    /\ \A c \in Callers, l \in Languages :
           loc[c].coi_ret[l].returned =>
               /\ loc[c].coi_ret[l].ok
               /\ \E i \in InsightsOf(loc[c].project, l) :
                      i.id = loc[c].coi_ret[l].insight

\* Two calls for one pair have both returned, the second after losing the
\* INSERT to the first, and its generator result is what the row now carries.
C5_Witness ==
    \E c, d \in Callers, l \in Languages :
        /\ c # d
        /\ loc[c].project = loc[d].project
        /\ loc[c].coi_ret[l].returned /\ ~loc[c].coi_ret[l].conflict
        /\ loc[d].coi_ret[l].returned /\ loc[d].coi_ret[l].conflict
        /\ loc[c].coi_ret[l].insight = loc[d].coi_ret[l].insight
        /\ \E i \in InsightsOf(loc[d].project, l) :
               /\ Content(i) = last_commit[<<i.project_id, l>>]
               /\ Content(i) \in AnalyzeOutcomes(d, l) \ AnalyzeOutcomes(c, l)

\* Caller c takes a step of create_or_update_insight in which no storage
\* operation raises anything but a uniqueness conflict.
CoiStepNoFault(c) ==
    /\ InCoi(c)
    /\ loc'[c] # loc[c]
    /\ ~loc'[c].db_error
    /\ ~loc'[c].coi_ret[loc[c].language].db_error

\* The row of c's pair after the step carries exactly c's generator result.
WroteOwnResult(c) ==
    LET after == {i \in project_insights' : /\ i.project_id = loc[c].project
                                            /\ i.language = loc[c].language}
    IN  /\ Cardinality(after) = 1
        /\ \A i \in after :
               /\ Content(i) = loc[c].analysis_result
               /\ loc'[c].coi_ret[loc[c].language].insight = i.id

\* C6: when the INSERT of create_or_update_insight meets a uniqueness conflict,
\* the call does not return: it keeps its generated content and re-reads the
\* pair's row; the row it finds is overwritten with that content and returned
\* with True (an absent row would be inserted once more); and a call that met
\* a conflict returns (False, None) only after a further storage failure.
C6_ConflictRecovery ==
    [][\A c \in Callers :
        LET l == loc[c].language
            rows == InsightsOf(loc[c].project, l)
        IN  /\ (/\ CoiStepNoFault(c)
                /\ pc[c] = "coi_await" /\ loc[c].existing = NoRow /\ rows # {})
               => /\ pc'[c] = "coi_retry_select"
                  /\ loc'[c].conflict
                  /\ ~loc'[c].coi_ret[l].returned
                  /\ loc'[c].analysis_result \in AnalyzeOutcomes(c, l)
                  /\ project_insights' = project_insights
            /\ (CoiStepNoFault(c) /\ pc[c] = "coi_retry_select")
               => /\ pc'[c] = "coi_retry_commit"
                  /\ loc'[c].analysis_result = loc[c].analysis_result
                  /\ IF rows = {} THEN loc'[c].existing = NoRow
                     ELSE \E r \in rows : loc'[c].existing = r.id
            /\ (CoiStepNoFault(c) /\ pc[c] = "coi_retry_commit")
               => /\ loc'[c].coi_ret[l].returned
                  /\ loc'[c].coi_ret[l].ok
                  /\ loc[c].existing # NoRow => WroteOwnResult(c)
            /\ (/\ InCoi(c)
                /\ loc'[c].coi_ret[l].returned
                /\ loc'[c].coi_ret[l].conflict
                /\ ~loc'[c].coi_ret[l].ok)
               => /\ loc'[c].coi_ret[l].db_error
                  /\ loc'[c].coi_ret[l].insight = NoRow]_vars

\* A call has met the conflict, overwritten the winner's row in its retry and
\* returned (True, row), with storage that may fail.
C6_Witness ==
    \E c \in Callers, l \in Languages :
        /\ loc[c].coi_ret[l].returned
        /\ loc[c].coi_ret[l].conflict
        /\ loc[c].coi_ret[l].ok
        /\ ~loc[c].coi_ret[l].db_error
        /\ \E i \in InsightsOf(loc[c].project, l) :
               /\ i.id = loc[c].coi_ret[l].insight
               /\ Content(i) \in AnalyzeOutcomes(c, l)

\* C7: process_project, with storage that does not fail.  A call that found
\* its full_name absent, and still absent when it writes, inserts exactly one
\* Project row built from the candidate and treats the project as new.  A call
\* that found the row inserts nothing, treats the project as not new, and
\* leaves the row with the candidate's stars_count, forks_count and
\* trending_date and its other columns as they were.
C7_UpsertCorrectness ==
    [][\A c \in Callers :
        LET cand == loc[c].cand
            before == ProjectByFullName(cand.full_name)
            after == {p \in projects' : p.full_name = cand.full_name}
        IN  /\ (pc[c] = "idle" /\ pc'[c] = "pp_write")
               => loc'[c].is_new = (ProjectByFullName(loc'[c].full_name) = {})
            /\ (pc[c] = "pp_write" /\ pc'[c] # "pp_write" /\ loc[c].is_new
                    /\ before = {})
               => /\ Cardinality(after) = 1
                  /\ projects' \ projects = after
                  /\ projects \subseteq projects'
                  /\ inserted'[cand.full_name] = inserted[cand.full_name] + 1
                  /\ loc'[c].is_new
                  /\ \A p \in after :
                         /\ p.id = loc'[c].project
                         /\ p.stars_count = cand.stars_count
                         /\ p.forks_count = cand.forks_count
                         /\ p.trending_date = cand.trending_date
                         /\ p.description = cand.description
            /\ (pc[c] = "pp_write" /\ pc'[c] # "pp_write" /\ ~loc[c].is_new)
               => /\ Cardinality(projects') = Cardinality(projects)
                  /\ inserted' = inserted
                  /\ ~loc'[c].is_new
                  /\ \E old \in before, p \in after :
                         /\ old.id = loc[c].project /\ p.id = old.id
                         /\ p.stars_count = cand.stars_count
                         /\ p.forks_count = cand.forks_count
                         /\ p.trending_date = cand.trending_date
                         /\ p.description = old.description
                         /\ p.name = old.name /\ p.owner = old.owner]_vars

\* A second sighting of a stored project, differing from the first, has been
\* merged: one row, created from the first sighting, with the second's counts.
C7_Witness ==
    \E c \in Callers :
        /\ loc[c].op = "pipeline" /\ pc[c] = "pp_check" /\ ~loc[c].is_new
        /\ Cardinality(ProjectByFullName(loc[c].full_name)) = 1
        /\ inserted[loc[c].full_name] = 1
        /\ LET p == ProjectById(loc[c].project)
           IN  /\ p.stars_count = loc[c].cand.stars_count
               /\ p.forks_count = loc[c].cand.forks_count
               /\ p.trending_date = loc[c].cand.trending_date
               /\ p.description # loc[c].cand.description

\* C8: with storage that does not fail, a process_project call whose INSERT
\* lost the race for a previously unseen full_name does not return False.
C8_ProjectConflictNotSurfaced ==
    \A c \in Callers :
        (/\ loc[c].op = "pipeline" /\ pc[c] = "done"
         /\ loc[c].is_new /\ ProjectByFullName(loc[c].full_name) # {})
            => loc[c].ret # "False"

\* C9: with storage that does not fail, the need check of process_project for
\* an existing project marks exactly the languages of {en, zh} whose pair has
\* no row with analysis_status "success": a pair with no row or only a failed
\* row is needed, a pair with a success row is not, and enrichment goes on
\* with a needed language or, with none needed, the call returns True.
C9_RetryOnFailureSelection ==
    [][\A c \in Callers :
        (pc[c] = "pp_check" /\ pc'[c] # "pp_check") =>
            LET needed == {l \in {"en", "zh"} :
                              \A i \in InsightsOf(loc[c].project, l) :
                                  i.analysis_status # "success"}
            IN  /\ loc'[c].queried
                /\ IF needed = {}
                   THEN pc'[c] = "done" /\ loc'[c].ret = "True"
                   ELSE /\ loc'[c].need = needed
                        /\ pc'[c] = "coi_select"
                        /\ loc'[c].language \in needed
                        /\ "en" \in needed => loc'[c].language = "en"]_vars

\* A pass over an existing project found a failed English row and a success
\* Chinese row, and selected English alone.
C9_Witness ==
    \E c \in Callers :
        /\ loc[c].op = "pipeline" /\ loc[c].queried
        /\ pc[c] = "coi_select" /\ loc[c].language = "en"
        /\ loc[c].need = {"en"}
        /\ \E i \in InsightsOf(loc[c].project, "en") : i.analysis_status = "failed"
        /\ \E i \in InsightsOf(loc[c].project, "zh") : i.analysis_status = "success"

HasFallbackTexts(r, language) ==
    \A f \in {"business_value", "market_opportunity", "startup_ideas",
              "target_audience", "competition_analysis"} :
        r[f] = get_default_analysis(language)[f]

\* C14: with storage that does not fail, every create_or_update_insight call
\* that gets to its write stores its generator result and returns
\* (True, insight) for the stored row; when the generator failed, the pair's
\* row has analysis_status "failed" and the pair has no success row, so that
\* the next need check selects it.
C14_FailurePersistedRetryable ==
    [][\A c \in Callers :
        LET l == loc[c].language
            p == loc[c].project
            after == {i \in project_insights' :
                         i.project_id = p /\ i.language = l}
            conflicts == /\ pc[c] = "coi_await" /\ loc[c].existing = NoRow
                         /\ InsightsOf(p, l) # {}
        IN  (/\ loc'[c] # loc[c]
             /\ \/ pc[c] = "coi_await" /\ ~conflicts
                \/ pc[c] = "coi_retry_commit")
            => /\ loc'[c].coi_ret[l].returned
               /\ loc'[c].coi_ret[l].ok
               /\ Cardinality(after) = 1
               /\ \A i \in after :
                      /\ i.id = loc'[c].coi_ret[l].insight
                      /\ Content(i) = last_commit'[<<p, l>>]
                      /\ HasFallbackTexts(last_commit'[<<p, l>>], l)
                             => /\ i.analysis_status = "failed"
                                /\ \A j \in after :
                                       j.analysis_status # "success"]_vars

\* ------------------------------------------------- claims on the driver's run
RunReturned == run.stage = "returned"

\* C15: a run of the driver never raises and always returns the statistics
\* object, and an error on one filter or one project does not keep any later
\* filter from being fetched and processed: when the run returns, what it
\* returns is result_stats, every filter has its entry in it and no fetched
\* project is left unprocessed.
C15_PerLanguageFailureIsolation ==
    RunReturned =>
        /\ run.result = "stats"
        /\ Len(run.stats.languages) = MaxFilters
        /\ run.projects = <<>>

RECURSIVE RowsInserted(_)
\* Project rows inserted so far, over the given full names.
RowsInserted(names) ==
    IF names = {}
    THEN 0
    ELSE LET fn == CHOOSE x \in names : TRUE
         IN  inserted[fn] + RowsInserted(names \ {fn})

\* C16: the statistics a run returns are accurate: new_projects is the number
\* of Project rows the run inserted, and new_projects + updated_projects is the
\* number of candidates whose row the run committed.
C16_StatisticsAccurate ==
    (RunReturned /\ run.result = "stats") =>
        /\ run.stats.new_projects = RowsInserted(FullNames)
        /\ run.stats.new_projects + run.stats.updated_projects = run.upserted

\* C17: when create_or_update_insight has returned (False, None) inside a
\* process_project call of the run, the driver, on collecting that call, raises
\* failed_analysis and leaves total_analyzed as it is, and the run goes on.
C17_FailedUnitCounted ==
    [][(/\ run.stage = "process"
        /\ pc[Driver] = "done"
        /\ run' # run
        /\ \E l \in Languages :
               loc[Driver].coi_ret[l].returned /\ ~loc[Driver].coi_ret[l].ok)
       => /\ run'.stats.failed_analysis > run.stats.failed_analysis
          /\ run'.stats.total_analyzed = run.stats.total_analyzed
          /\ run'.stage \in {"process", "fetch", "returned"}]_vars

\* ------------------------------------- claims on get_project_insights_by_name
\* Caller c has finished a call of the endpoint that found its project.
ReadDone(c) ==
    /\ loc[c].op = "read"
    /\ pc[c] = "done"
    /\ loc[c].project # NoRow

PlaceholderRets == {"placeholder", "placeholder_error"}

\* The fields the response model ProjectInsight reads from what is returned.
ResponseFields ==
    {"id", "project_id", "language", "analysis_status", "analysis_version",
     "business_value", "market_opportunity", "startup_ideas",
     "target_audience", "competition_analysis"}

\* C18: a call of the read endpoint for a project that exists always ends by
\* returning an object with every field of the response, analysis_status among
\* them, for the pair asked for, whatever the generator and the storage did
\* (generator failure, uniqueness conflict, (False, None), failing queries):
\* the object is a stored Insight row, possibly a failed one, or an id = -1
\* placeholder with status "failed".
C18_ReadNeverHardFails ==
    \A c \in Callers :
        ReadDone(c) =>
            /\ loc[c].ret \in {"insight"} \cup PlaceholderRets
            /\ loc[c].ret = "insight" =>
                   \E i \in project_insights : i.id = loc[c].ret_insight
            /\ LET o == rd_result(loc[c])
               IN  /\ ResponseFields \subseteq DOMAIN o
                   /\ o.analysis_status \in {"success", "failed"}
                   /\ o.project_id = loc[c].project
                   /\ o.language = loc[c].language
                   /\ \/ o \in project_insights
                      \/ o.id = -1 /\ o.analysis_status = "failed"

\* A read whose create_or_update_insight returned (False, None) and which
\* found no row on its re-query has returned the placeholder.
C18_Witness ==
    \E c \in Callers :
        /\ ReadDone(c)
        /\ loc[c].coi_ret[loc[c].language].returned
        /\ ~loc[c].coi_ret[loc[c].language].ok
        /\ loc[c].ret = "placeholder"

PlaceholderTexts ==
    {CannotAnalyze, ErrorAnalyzing, <<"No data, please try again later", 0>>}

\* C19: the placeholder is never a stored entity: no reachable storage state
\* holds an Insight row with id = -1 or with one of the placeholder's texts,
\* and the step in which the endpoint returns a placeholder leaves both tables
\* as they were.
C19_PlaceholderNeverStored ==
    /\ [](\A i \in project_insights :
              /\ i.id # -1
              /\ {i.business_value, i.market_opportunity, i.startup_ideas,
                  i.target_audience, i.competition_analysis}
                     \cap PlaceholderTexts = {})
    /\ [][\A c \in Callers :
              (loc'[c].ret \in PlaceholderRets /\ loc[c].ret \notin PlaceholderRets)
                  => /\ project_insights' = project_insights
                     /\ projects' = projects]_vars

\* A read has returned a placeholder while storage holds Insight rows.
C19_Witness ==
    /\ project_insights # {}
    /\ \E c \in Callers : ReadDone(c) /\ loc[c].ret \in PlaceholderRets

\* C20: the first step of the endpoint for a project that exists, its insight
\* query answered: with a success row for the pair it returns that row, calls
\* no generator and writes nothing; with no row or a failed row it enters
\* create_or_update_insight for that pair.  A read enters
\* create_or_update_insight from that first step only, hence once, for the one
\* language asked for, and when that call returns (True, insight) the endpoint
\* returns that insight.
C20_OnDemandEnrichment ==
    [][\A c \in Callers :
        /\ (/\ pc[c] = "idle"
            /\ loc'[c].op = "read"
            /\ loc'[c].project # NoRow
            /\ loc'[c].ret # "placeholder_error")
           => LET L == loc'[c]
                  rows == {i \in project_insights :
                               /\ i.project_id = L.project
                               /\ i.language = L.language}
              IN  IF \E i \in rows : i.analysis_status = "success"
                  THEN /\ pc'[c] = "done"
                       /\ L.ret = "insight"
                       /\ \E i \in rows : i.id = L.ret_insight
                       /\ L.gen_calls = 0
                       /\ \A l \in Languages : ~L.coi_ret[l].returned
                       /\ project_insights' = project_insights
                       /\ projects' = projects
                  ELSE /\ pc'[c] = "coi_select"
                       /\ L.gen_calls = 0
        /\ (loc'[c].op = "read" /\ pc'[c] = "coi_select" /\ pc[c] # "coi_select")
           => pc[c] = "idle"
        /\ (loc'[c].op = "read" /\ pc'[c] = "done" /\ pc[c] # "done")
           => LET L == loc'[c]
              IN  /\ \A l \in Languages \ {L.language} : ~L.coi_ret[l].returned
                  /\ (L.coi_ret[L.language].returned /\ L.coi_ret[L.language].ok)
                         => /\ L.ret = "insight"
                            /\ L.ret_insight = L.coi_ret[L.language].insight]_vars

\* A read has returned the success row it found without entering
\* create_or_update_insight.
C20_Witness ==
    \E c \in Callers :
        /\ ReadDone(c)
        /\ loc[c].ret = "insight"
        /\ ~loc[c].coi_ret[loc[c].language].returned
        /\ InsightById(loc[c].ret_insight).analysis_status = "success"

\* --------------------------------------------------- claims on the two tables
\* C21: rows of projects change only in the upsert step of process_project and
\* rows of project_insights only in the two commits of
\* create_or_update_insight: every other step (the need check, the pre-check of
\* analyze_single_project, the queries of the read endpoint, the locked reads)
\* leaves both tables as they were.
C21_MutationOnlyInUpsertAndCoi ==
    [][\A c \in Callers :
          pc'[c] # pc[c] =>
              /\ projects' # projects =>
                     pc[c] = "pp_write" /\ loc[c].op = "pipeline"
              /\ project_insights' # project_insights =>
                     pc[c] \in {"coi_await", "coi_retry_commit"}
              /\ ~(projects' # projects /\ project_insights' # project_insights)]_vars

\* analyze_single_project has returned True from its pre-check alone while
\* both tables hold rows.
C21_Witness ==
    /\ projects # {}
    /\ project_insights # {}
    /\ \E c \in Callers :
           /\ pc[c] = "done"
           /\ loc[c].op = "batch"
           /\ loc[c].ret = "True"
           /\ \A l \in Languages : ~loc[c].coi_ret[l].returned

\* C22: a create_or_update_insight call abandoned before its commit, during
\* the generator call included, leaves nothing behind: the step that abandons
\* it changes no row of either table and frees the row it had locked, and no
\* step the call took before (its locked reads, a conflicting INSERT that was
\* rolled back) has changed a row either.
C22_AbandonmentBeforeWriteSafe ==
    [][\A c \in Callers :
          /\ (InCoi(c) /\ loc'[c].ret = "abandoned")
                 => /\ project_insights' = project_insights
                    /\ projects' = projects
                    /\ last_commit' = last_commit
                    /\ lock'[c] = NoLock
          /\ (/\ pc'[c] # pc[c]
              /\ \/ pc[c] \in {"coi_select", "coi_retry_select"}
                 \/ pc[c] = "coi_await" /\ pc'[c] = "coi_retry_select")
                 => project_insights' = project_insights]_vars

\* A call was abandoned while the generator was running on a pair that has a
\* stored row, which the call had locked.
C22_Witness ==
    \E c \in Callers :
        /\ loc[c].ret = "abandoned"
        /\ loc[c].project # NoRow
        /\ InsightsOf(loc[c].project, loc[c].language) # {}

\* C23: no committed storage state shows a partially written Insight: the five
\* texts, analysis_status and language of every row are, together, the result
\* of one analyze_project invocation, and its analysis_version is the model
\* that invocation used, also when writers race, when the conflict recovery
\* runs and when storage operations fail.
C23_NoPartialInsight ==
    \A i \in project_insights :
        /\ \E c \in Callers : Content(i) \in AnalyzeOutcomes(c, i.language)
        /\ i.analysis_version = OPENAI_MODEL

\* A row that one call inserted has been overwritten by the conflict recovery
\* of another call and carries that call's generated result whole.
C23_Witness ==
    \E c \in Callers, l \in Languages :
        /\ loc[c].coi_ret[l].conflict
        /\ loc[c].coi_ret[l].ok
        /\ \E i \in project_insights :
               /\ i.id = loc[c].coi_ret[l].insight
               /\ Content(i) = LlmPayload(c, l)

\* Caller c is between a locked read of create_or_update_insight and the
\* write that follows it.
InReadThenWrite(c) == pc[c] \in {"coi_await", "coi_retry_commit"}

SamePair(c, d) ==
    /\ loc[c].project = loc[d].project
    /\ loc[c].language = loc[d].language

\* C24: the read-then-write sequences of two create_or_update_insight calls on
\* one pair never overlap, whether or not the pair has a row: no two callers
\* are between their locked read and their write of the same pair at once.
C24_WritersSerialize ==
    \A c, d \in Callers :
        (c # d /\ InReadThenWrite(c) /\ InReadThenWrite(d)) => ~SamePair(c, d)

\* C24 as the code has it.  Calls that read an existing row serialize on its
\* lock: of the calls between read and write on one pair at most one has read
\* a row, and it holds that row locked.  Calls that read the pair absent may
\* overlap, but a write is committed only on a read that is still true: an
\* UPDATE goes to the row the call holds locked, an INSERT commits only while
\* the pair has no row, and the INSERT of a call whose read went stale changes
\* nothing and sends the call to a fresh locked read.
C24_WritersSerializeOnExistingRow ==
    /\ [](\A c \in Callers :
              (InReadThenWrite(c) /\ loc[c].existing # NoRow) =>
                  /\ lock[c] = <<"project_insights", loc[c].existing>>
                  /\ \E i \in InsightsOf(loc[c].project, loc[c].language) :
                         i.id = loc[c].existing
                  /\ \A d \in Callers \ {c} :
                         (InReadThenWrite(d) /\ SamePair(c, d)) =>
                             loc[d].existing = NoRow)
    /\ [][\A c \in Callers :
              (/\ InReadThenWrite(c)
               /\ pc'[c] # pc[c]
               /\ project_insights' # project_insights) =>
                  LET rows == InsightsOf(loc[c].project, loc[c].language)
                  IN  IF loc[c].existing = NoRow
                      THEN rows = {}
                      ELSE \E i \in rows :
                               /\ i.id = loc[c].existing
                               /\ project_insights' \ project_insights
                                      \subseteq {j \in project_insights' :
                                                    j.id = i.id}]_vars

\* One call holds the pair's row locked while its generator runs, and another
\* call for the same pair stands before its locked read.
C24_Witness ==
    \E c, d \in Callers :
        /\ c # d
        /\ pc[c] = "coi_await"
        /\ loc[c].existing # NoRow
        /\ pc[d] = "coi_select"
        /\ SamePair(c, d)

\* C25: get_trending_projects never raises and returns the empty list when the
\* fetch fails or the page lists nothing; the run then has scraped = 0 and
\* analyzed = 0 for that filter, counts nothing into total_scraped, calls
\* process_project for nothing and goes on to the next filter, or returns
\* result_stats after the last one.
C25_FetcherNeverRaises ==
    /\ [](\A o \in FetchOutcomes :
              (~o.ok \/ o.items = <<>>) => get_trending_projects(o) = <<>>)
    /\ [][(run.stage = "fetch" /\ run' # run) =>
             LET e == run'.stats.languages[run.k]
             IN  /\ Len(run'.stats.languages) = run.k
                 /\ ~run'.fetch_ok => e.scraped = 0
                 /\ e.scraped = 0 =>
                        /\ e.analyzed = 0
                        /\ run'.stats.total_scraped = run.stats.total_scraped
                        /\ pc' = pc
                        /\ IF run.k < MaxFilters
                           THEN run'.stage = "fetch" /\ run'.k = run.k + 1
                           ELSE run'.stage = "returned" /\ run'.result = "stats"]_vars

\* The fetch of the first filter failed, the run stands at the fetch of the
\* second.
C25_Witness ==
    /\ run.stage = "fetch"
    /\ run.k = 2
    /\ ~run.fetch_ok
    /\ run.stats.languages[1].scraped = 0

\* C27: no step of the pipeline, of the batch task or of the read path removes
\* a row or changes the identity of one: every Project row is there after the
\* step with the same id, full_name, name and owner, and every Insight row
\* with the same id, project and language; so an identity or a pair that has a
\* row has one in every later state.
C27_RowsPersistIdentityImmutable ==
    [][/\ \A p \in projects :
              \E q \in projects' :
                  /\ q.id = p.id
                  /\ q.full_name = p.full_name
                  /\ q.name = p.name
                  /\ q.owner = p.owner
       /\ \A i \in project_insights :
              \E j \in project_insights' :
                  /\ j.id = i.id
                  /\ j.project_id = i.project_id
                  /\ j.language = i.language
       /\ Cardinality(projects') >= Cardinality(projects)
       /\ Cardinality(project_insights') >= Cardinality(project_insights)]_vars

\* The stored project has been sighted again and updated, and its failed
\* Insight has been overwritten by a success: both rows are the rows that
\* were there from the start.
C27_Witness ==
    /\ \E p \in projects :
           p.id = 1 /\ p.full_name = "acme/widget" /\ p.trending_date = 2
    /\ \E i \in project_insights :
           /\ i.id = 1 /\ i.project_id = 1 /\ i.language = "en"
           /\ i.analysis_status = "success"

InRetry(c) == pc[c] \in {"coi_retry_select", "coi_retry_commit"}

\* C29: one create_or_update_insight call makes at most two commit attempts:
\* none before the generator has answered, one when it is in its retry block,
\* which it enters only after a uniqueness conflict; and every step of the
\* retry block either moves from its locked read to its one commit or ends the
\* call, so the call never goes round on repeated conflicts or errors.
C29_BoundedRetry ==
    /\ [](\A c \in Callers :
              /\ loc[c].commits <= 2
              /\ pc[c] \in {"coi_select", "coi_await"} => loc[c].commits = 0
              /\ InRetry(c) => loc[c].commits = 1 /\ loc[c].conflict)
    /\ [][\A c \in Callers :
              (InRetry(c) /\ (loc'[c] # loc[c] \/ pc'[c] # pc[c])) =>
                  \/ /\ pc[c] = "coi_retry_select"
                     /\ pc'[c] = "coi_retry_commit"
                     /\ loc'[c].commits = loc[c].commits
                  \/ /\ ~loc[c].coi_ret[loc[c].language].returned
                     /\ loc'[c].coi_ret[loc[c].language].returned
                     /\ loc'[c].coi_ret[loc[c].language].conflict]_vars

\* A call that met the conflict has ended after its second attempt, and its
\* caller has finished.
C29_Witness ==
    \E c \in Callers, l \in Languages :
        /\ pc[c] = "done"
        /\ loc[c].coi_ret[l].returned
        /\ loc[c].coi_ret[l].conflict

\* C30: the two pairs of one process_project call are independent.  When the
\* English enrichment ends, with (True, insight) or with (False, None), and
\* Chinese is needed, the call goes on to the Chinese enrichment; and a step
\* of create_or_update_insight for one language leaves every row of any other
\* language, and of any other project, as it was.
C30_PairsIndependent ==
    [][\A c \in Callers :
          /\ (/\ loc[c].op = "pipeline"
              /\ loc[c].language = "en"
              /\ ~loc[c].coi_ret["en"].returned
              /\ loc'[c].coi_ret["en"].returned
              /\ "zh" \in loc[c].need)
             => /\ pc'[c] = "coi_select"
                /\ loc'[c].language = "zh"
                /\ ~loc'[c].coi_ret["zh"].returned
          /\ (InCoi(c) /\ pc'[c] # pc[c])
             => \A i \in project_insights :
                    (i.language # loc[c].language \/ i.project_id # loc[c].project)
                        => i \in project_insights']_vars

\* In one process_project call the English enrichment has returned
\* (False, None) and the Chinese one, attempted after it, (True, insight).
C30_Witness ==
    \E c \in Callers :
        /\ loc[c].op = "pipeline"
        /\ loc[c].coi_ret["en"].returned /\ ~loc[c].coi_ret["en"].ok
        /\ loc[c].coi_ret["zh"].returned /\ loc[c].coi_ret["zh"].ok
        /\ \E i \in project_insights :
               i.project_id = loc[c].project /\ i.language = "zh"

\* C31: every Insight row in storage has analysis_status "success" or
\* "failed" and the language of the call that wrote it, and the generator
\* result it was last written from carries that same language, whatever
\* language the caller asked for.
C31_StoredInsightDomain ==
    \A i \in project_insights :
        /\ i.analysis_status \in {"success", "failed"}
        /\ i.language \in RequestLanguages
        /\ <<i.project_id, i.language>> \in DOMAIN last_commit
        /\ last_commit[<<i.project_id, i.language>>] # NoCommit
        /\ last_commit[<<i.project_id, i.language>>].language = i.language

C33_NoDeadlock ==
    (\E c \in Callers : InCoi(c)) => ENABLED NextLoop

\* C34: one create_or_update_insight call invokes analyze_project at most
\* once: not before its first locked read, once from then on; the steps of the
\* conflict-recovery path invoke nothing and keep the result the call holds,
\* and what the recovery writes is that result.
C34_OneGeneratorInvocation ==
    /\ [](\A c \in Callers :
              /\ loc[c].gen_calls <= 1
              /\ pc[c] = "coi_select" => loc[c].gen_calls = 0
              /\ pc[c] \in {"coi_await", "coi_retry_select", "coi_retry_commit"}
                     => loc[c].gen_calls = 1)
    /\ [][\A c \in Callers :
              /\ (InRetry(c) /\ pc'[c] \in {"coi_retry_select", "coi_retry_commit"})
                     => /\ loc'[c].gen_calls = loc[c].gen_calls
                        /\ loc'[c].analysis_result = loc[c].analysis_result
              /\ (/\ pc[c] = "coi_retry_commit"
                  /\ pc'[c] # pc[c]
                  /\ project_insights' # project_insights)
                     => last_commit'[<<loc[c].project, loc[c].language>>]
                            = loc[c].analysis_result]_vars

\* A call is on its recovery path: its INSERT met the unique index, its second
\* locked read has found the row, and it has invoked the generator once.
C34_Witness ==
    \E c \in Callers :
        /\ pc[c] = "coi_retry_commit"
        /\ loc[c].conflict
        /\ loc[c].existing # NoRow
        /\ loc[c].gen_calls = 1
        /\ loc[c].analysis_result # NoResult

\* C35: create_or_update_insight ends by returning (True, insight) or
\* (False, None).  At the step that returns (True, insight), insight is a row
\* of the call's pair in committed storage; at the step that returns
\* (False, None), the insight is None, storage is as it was before the step
\* and the call holds no row lock.
C35_ResultShape ==
    [][\A c \in Callers, l \in Languages :
          (/\ InCoi(c)
           /\ loc[c].language = l
           /\ ~loc[c].coi_ret[l].returned
           /\ loc'[c].coi_ret[l].returned)
          => LET r == loc'[c].coi_ret[l]
             IN  /\ lock'[c] = NoLock
                 /\ r.ok =>
                        /\ r.insight # NoRow
                        /\ \E i \in project_insights' :
                               /\ i.id = r.insight
                               /\ i.project_id = loc[c].project
                               /\ i.language = l
                 /\ ~r.ok =>
                        /\ r.insight = NoRow
                        /\ project_insights' = project_insights
                        /\ projects' = projects]_vars

\* One call has returned (False, None) after its write failed while another
\* has returned (True, insight).
C35_Witness ==
    \E c, d \in Callers, l, k \in Languages :
        /\ loc[c].coi_ret[l].returned
        /\ ~loc[c].coi_ret[l].ok
        /\ loc[c].coi_ret[l].db_error
        /\ loc[d].coi_ret[k].returned
        /\ loc[d].coi_ret[k].ok
        /\ loc[d].coi_ret[k].insight # NoRow

\* C36: every Insight row belongs to a Project row, and a process_project
\* call that is inside create_or_update_insight, or past it, has its Project
\* row committed: no enrichment write precedes the commit of its project.
C36_ReferentialIntegrity ==
    /\ \A i \in project_insights : \E p \in projects : p.id = i.project_id
    /\ \A c \in Callers :
           (InCoi(c) \/ \E l \in Languages : loc[c].coi_ret[l].returned)
               => /\ loc[c].project # NoRow
                  /\ \E p \in projects :
                         p.id = loc[c].project /\ p.full_name = loc[c].full_name

\* A process_project call has inserted its project and stored an Insight for
\* it.
C36_Witness ==
    \E c \in Callers :
        /\ loc[c].op = "pipeline"
        /\ loc[c].is_new
        /\ \E i \in project_insights : i.project_id = loc[c].project

RECURSIVE SumOver(_, _, _)
\* The sum of the count named field over the entries of the dictionary d
\* at the given keys.
SumOver(d, field, keys) ==
    IF keys = {}
    THEN 0
    ELSE LET k == CHOOSE x \in keys : TRUE
         IN  d[k][field] + SumOver(d, field, keys \ {k})

\* C37: throughout a run total_scraped is the sum of the scraped counts of the
\* entries of result_stats["languages"] and total_analyzed the sum of their
\* analyzed counts; and when the run returns result_stats,
\* total_analyzed + failed_analysis = total_scraped.
C37_StatisticsConservation ==
    run.stage # "idle" =>
        LET st == run.stats
        IN  /\ st.total_scraped =
                   SumOver(st.languages, "scraped", DOMAIN st.languages)
            /\ st.total_analyzed =
                   SumOver(st.languages, "analyzed", DOMAIN st.languages)
            /\ (RunReturned /\ run.result = "stats") =>
                   st.total_analyzed + st.failed_analysis = st.total_scraped

\* C38: process_project holds the lock of its Project row only between its
\* locked read and its commit: in the need check and inside
\* create_or_update_insight, the awaited generator call included, the call
\* holds no lock on table projects, so a concurrent process_project of the same
\* full_name does not wait for the generation.
C38_ProjectLockNotHeldInEnrichment ==
    \A c \in Callers :
        /\ (InCoi(c) \/ pc[c] \in {"pp_check", "rd_requery", "done", "idle"})
               => lock[c][1] # "projects"
        /\ lock[c][1] = "projects"
               => /\ pc[c] = "pp_write"
                  /\ lock[c][2] = loc[c].project

\* While the generator call of one process_project is in flight, another
\* process_project of the same full_name has read and locked the Project row.
C38_Witness ==
    \E c, d \in Callers :
        /\ c # d
        /\ loc[c].op = "pipeline"
        /\ pc[c] = "coi_await"
        /\ loc[d].op = "pipeline"
        /\ pc[d] = "pp_write"
        /\ loc[d].full_name = loc[c].full_name
        /\ lock[d] = <<"projects", loc[c].project>>

\* C39: the list that get_projects_without_insights hands to the task has at
\* most limit projects and none twice, and each of them is without a success
\* Insight in one of the languages asked for; and an analyze_single_project
\* call for a pair that has a success Insight when it checks returns True
\* without entering create_or_update_insight and without a write.
C39_BatchSelectionBound ==
    /\ [](run.stage \in {"select", "analyze"} =>
              LET list == run.projects_to_analyze
              IN  /\ Len(list) <= run.limit
                  /\ \A a, b \in 1..Len(list) : a # b => list[a] # list[b])
    /\ [][(run.stage \in {"idle", "select"} /\ run'.stage \in {"analyze", "returned"})
              => LET list == run'.projects_to_analyze
                 IN  /\ Len(list) <= run'.limit
                     /\ \A a, b \in 1..Len(list) : a # b => list[a] # list[b]
                     /\ \A a \in 1..Len(list) :
                            \E k \in 1..Len(run'.languages) :
                                list[a] \in Eligible(run'.languages[k])]_vars
    /\ [][(/\ run.stage = "analyze"
           /\ pc[Driver] = "idle"
           /\ pc'[Driver] # "idle"
           /\ \E i \in InsightsOf(run.projects_to_analyze[run.p],
                                  run.languages[run.l]) :
                  i.analysis_status = "success")
              => /\ pc'[Driver] = "done"
                 /\ loc'[Driver].ret = "True"
                 /\ loc'[Driver].gen_calls = 0
                 /\ project_insights' = project_insights
                 /\ projects' = projects]_vars

\* A run with limit 1 over both languages has selected one project that has a
\* success Insight in English and none in Chinese, has skipped its English
\* pair and stands before its Chinese one.
C39_Witness ==
    /\ run.stage = "analyze"
    /\ run.limit = 1
    /\ run.languages = <<"en", "zh">>
    /\ Len(run.projects_to_analyze) = 1
    /\ run.l = 2
    /\ pc[Driver] = "idle"
    /\ \E i \in InsightsOf(run.projects_to_analyze[1], "en") :
           i.analysis_status = "success"
    /\ InsightsOf(run.projects_to_analyze[1], "zh") = {}
    /\ Cardinality(Eligible("zh")) = MaxStored

\* C40: the need check of process_project fails open: what it reports is what
\* the query finds or, when the query raises, every language; and in a run
\* in which nothing else writes, the enrichment that follows leaves a success
\* Insight of its pair as it is, content and status.
C40_NeedCheckFailsOpen ==
    [][/\ (pc[Driver] = "pp_check" /\ pc'[Driver] = "coi_select")
              => loc'[Driver].need \in
                     {check_if_insights_needed(loc[Driver].project, {"en", "zh"}),
                      {"en", "zh"}}
       /\ (/\ loc[Driver].op = "pipeline"
           /\ pc[Driver] = "coi_await"
           /\ pc'[Driver] # "coi_await")
              => \A i \in InsightsOf(loc[Driver].project, loc[Driver].language) :
                     i.analysis_status = "success" => i \in project_insights']_vars

\* ------------------------------------------------ claims on ProjectAnalyzer
\* The call under the lens has returned.
AzReturned == llm.stage = "returned"

\* C11: whenever analyze_project fails internally (the model call raises, the
\* response has no choice, or parsing the output raises), the payload it
\* returns has analysis_status "failed".
C11_FailureClassifiedFailed ==
    (AzReturned /\ llm.response.kind \in {"raises", "no_choice", "no_content"})
        => llm.result.analysis_status = "failed"

C12_FallbackCompleteness ==
    AzReturned =>
        /\ \A f \in SectionSet : f \in DOMAIN llm.result /\ llm.result[f] # <<>>
        /\ llm.result.analysis_status \in {"success", "failed"}
        /\ llm.result.language = llm.language
        /\ llm.response.kind \in {"raises", "no_choice"}
               => llm.result.analysis_status = "failed"

\* The model call raised, and the failure fallback came back whole.
C12_Witness ==
    /\ AzReturned
    /\ llm.response.kind = "raises"
    /\ llm.result.analysis_status = "failed"
    /\ \A f \in SectionSet : Len(llm.result[f]) > 0

\* The positions of token tok in text, and the ends of a set of positions.
Positions(text, tok) == {k \in 1..Len(text) : text[k] = tok}

Lowest(S) == CHOOSE k \in S : \A m \in S : k <= m

Highest(S) == CHOOSE k \in S : \A m \in S : m <= k

\* text without its leading and trailing whitespace.
Trimmed(text) ==
    LET solid == {k \in 1..Len(text) : text[k] # Space}
    IN  IF solid = {} THEN <<>> ELSE SubSeq(text, Lowest(solid), Highest(solid))

\* What lies between the first token open of text and the first token close
\* after it, trimmed; absent is TRUE when there is no such pair.
Enclosed(text, open, close) ==
    LET os == Positions(text, open)
        cs == IF os = {} THEN {}
              ELSE {k \in Positions(text, close) : k > Lowest(os)}
    IN  IF cs = {} THEN [absent |-> TRUE, content |-> <<>>]
        ELSE [absent |-> FALSE,
              content |-> Trimmed(SubSeq(text, Lowest(os) + 1, Lowest(cs) - 1))]

\* The part of an answer that is read for sections: what the first pair of
\* code fences encloses when there is such a pair, else the whole answer.
ReadPart(text) ==
    IF Enclosed(Trimmed(text), Fence, Fence).absent
    THEN Trimmed(text)
    ELSE Enclosed(Trimmed(text), Fence, Fence).content

\* The default placeholder of a section in the requested language.
IsFieldDefault(v, language, f) ==
    v = <<IF language = "zh" THEN "zh default of field"
          ELSE "en default of field", f>>

\* The payload carries, for each section, the content the section has in
\* text, or the language's default placeholder when it has none there.
SectionsTakenFrom(text) ==
    \A f \in SectionSet :
        LET e == Enclosed(text, OpenTag(f), CloseTag(f))
        IN  IF e.content # <<>>
            THEN llm.result[f] = e.content
            ELSE IsFieldDefault(llm.result[f], llm.language, f)

\* C13 as stated: when the model call returns a text, every section present
\* in the returned text keeps its content, every section missing from it or
\* empty gets the default placeholder of the requested language, and the
\* payload has analysis_status "success".
C13_PartialOutputValidated ==
    (AzReturned /\ llm.response.kind = "text") =>
        /\ llm.result.analysis_status = "success"
        /\ SectionsTakenFrom(llm.response.text)

\* C13 amended: the same, with "present" read against the part of the text
\* that the parser reads: the content of the first fenced code block when the
\* text has one, the whole text otherwise.
C13_PartialOutputValidatedInReadPart ==
    (AzReturned /\ llm.response.kind = "text") =>
        /\ llm.result.analysis_status = "success"
        /\ llm.result.language = llm.language
        /\ SectionsTakenFrom(ReadPart(llm.response.text))

\* A fenced answer with business_value present and startup_ideas missing.
C13_Witness ==
    /\ AzReturned
    /\ llm.response.kind = "text"
    /\ llm.response.text =
           <<Fence, OpenTag("business_value"), "x",
             CloseTag("business_value"), Fence>>
    /\ llm.result.business_value = <<"x">>
    /\ IsFieldDefault(llm.result.startup_ideas, llm.language, "startup_ideas")
    /\ llm.result.analysis_status = "success"

====
